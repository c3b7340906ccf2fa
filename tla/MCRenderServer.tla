---------------------------- MODULE MCRenderServer ----------------------------
(* Instances of RenderServer.                                                *)
EXTENDS RenderServer

OneDocument == {"particles"}
TwoSizes == {"small", "large"}
OneSize == {"small"}
RightArgc == {3}
AnyArgc == {2, 3}
===============================================================================
