----------------------------- MODULE RenderServer -----------------------------
(***************************************************************************)
(* The MPI job of the rendering server (rendering_server/source/           *)
(* server.cxx): NumProc ranks load their particles, meet at a barrier,     *)
(* open a window, set up IceT and then run the GLUT loop, whose idle       *)
(* callback draws one frame of the animation per call and leaves through   *)
(* MPI_Finalize after the last one.                                        *)
(*                                                                         *)
(* Outside the repository, modelled as main() and the callbacks use them:  *)
(*   MPI    a collective call returns once every rank has made it; a rank  *)
(*          that dies takes the job with it (Abort);                       *)
(*   IceT   icetGLDrawFrame() calls Draw, hands this rank's image to the   *)
(*          rank that displays the tile and, there, waits for one image    *)
(*          from every rank; images of one rank keep their order;          *)
(*   GLUT   callbacks of a rank run one at a time, the display callback    *)
(*          only when a redisplay is pending.                              *)
(* angle counts in steps of 0.1 degrees.                                   *)
(***************************************************************************)
EXTENDS Naturals, Sequences

CONSTANTS NumProc,       \* number of MPI ranks
          LastAngle,     \* the animation's last angle (720 degrees)
          LastFrame,     \* value at which "frame" wraps to 0 (100)
          Sizes,         \* tile sizes: values of TILE_WIDTH x TILE_HEIGHT
          Documents,     \* what a successful load puts in "particles"
          None,          \* no particles loaded, no tile, no image
          MaxAhead,      \* bound: images in flight per rank
          ArgcChoices,   \* argument counts the job may be started with
          DisplayFirst   \* GLUT runs the display callback before the first
                         \* idle callback

ASSUME RenderServerAssumption ==
  /\ NumProc \in Nat \ {0}
  /\ LastAngle \in Nat
  /\ LastFrame \in Nat
  /\ MaxAhead \in Nat \ {0}
  /\ Sizes # {}
  /\ None \notin Documents
  /\ DisplayFirst \in BOOLEAN

Ranks == 0..(NumProc - 1)

VARIABLES argc,        \* the same command line for every rank
          pc,          \* where each rank is
          entered,     \* collective calls (barrier, dup, finalize) entered
          particles,   \* what each rank has loaded
          win,         \* TILE_WIDTH x TILE_HEIGHT of each rank
          tiles,       \* display rank and size of the tiles added to IceT
          redisplay,   \* GLUT owes the rank a display callback
          drawable,    \* InitIceT has given IceT the Draw callback
          angle,       \* frames DoFrame has finished
          frame,       \* the global frame counter
          images,      \* images under way to the display rank, oldest first
          shown        \* the images the display rank composed last

vars == <<argc, pc, entered, particles, win, tiles, redisplay, drawable, angle,
          frame, images, shown>>
setup == <<argc, entered, particles>>
display == <<win, tiles, redisplay, drawable>>
animation == <<angle, frame, images, shown>>

\* Both branches on num_proc add a single tile, displayed by rank 0.
DisplayRank == 0

Images == [angle : 0..LastAngle, particles : Documents \cup {None}]
Image(r) == [angle |-> angle[r], particles |-> particles[r]]

Init ==
  /\ argc \in ArgcChoices
  /\ pc = [r \in Ranks |-> "start"]
  /\ entered = [r \in Ranks |-> 0]
  /\ particles = [r \in Ranks |-> None]
  /\ \E s \in Sizes : win = [r \in Ranks |-> s]
  /\ tiles = [r \in Ranks |-> {}]
  /\ redisplay = [r \in Ranks |-> FALSE]
  /\ drawable = [r \in Ranks |-> FALSE]
  /\ angle = [r \in Ranks |-> 0]
  /\ frame = [r \in Ranks |-> 0]
  /\ images = [r \in Ranks |-> <<>>]
  /\ shown = None

Goto(r, to) == pc' = [pc EXCEPT ![r] = to]

\* The n-th collective call returns once every rank has entered it.
Everyone(n) == \A q \in Ranks : entered[q] >= n
Enter(r, n) == entered' = [entered EXCEPT ![r] = n]

-------------------------------------------------------------------------------
(* main() up to glutMainLoop().                                              *)

\* With a wrong command line main() returns without MPI_Finalize().
CheckArguments(r) ==
  /\ pc[r] = "start"
  /\ Goto(r, IF argc = 3 THEN "load" ELSE "dead")
  /\ UNCHANGED <<setup, display, animation>>

\* Loading as module Loader describes it; then MPI_Barrier().
Load(r) ==
  /\ pc[r] = "load"
  /\ \E d \in Documents : particles' = [particles EXCEPT ![r] = d]
  /\ Enter(r, 1)
  /\ Goto(r, "barrier")
  /\ UNCHANGED <<argc, display, animation>>

\* Mutant: the exception is caught and main() goes on.
LoadFails_Ignored(r) ==
  /\ pc[r] = "load"
  /\ Enter(r, 1)
  /\ Goto(r, "barrier")
  /\ UNCHANGED <<argc, particles, display, animation>>

\* An exception leaves main(): terminate().
LoadFails(r) ==
  /\ pc[r] = "load"
  /\ Goto(r, "dead")
  /\ UNCHANGED <<setup, display, animation>>

\* Mutant: no MPI_Barrier().
OpenWindow_NoBarrier(r) ==
  /\ pc[r] = "barrier"
  /\ redisplay' = [redisplay EXCEPT ![r] = TRUE]
  /\ Enter(r, 2)
  /\ Goto(r, "window")
  /\ UNCHANGED <<argc, particles, win, tiles, drawable, animation>>

\* Past the barrier the rank makes its window and duplicates MPI_COMM_WORLD
\* for IceT.
OpenWindow(r) ==
  /\ pc[r] = "barrier" /\ Everyone(1)
  /\ redisplay' = [redisplay EXCEPT ![r] = TRUE]
  /\ Enter(r, 2)
  /\ Goto(r, "window")
  /\ UNCHANGED <<argc, particles, win, tiles, drawable, animation>>

EnterMainLoop(r) ==
  /\ pc[r] = "window" /\ Everyone(2)
  /\ Goto(r, "loop")
  /\ UNCHANGED <<setup, display, animation>>

-------------------------------------------------------------------------------
(* GLUT's callbacks.                                                         *)

\* Mutant: no icetResetTiles().
InitIceT_KeepsTiles(r) ==
  /\ pc[r] = "loop" /\ redisplay[r]
  /\ redisplay' = [redisplay EXCEPT ![r] = FALSE]
  /\ drawable' = [drawable EXCEPT ![r] = TRUE]
  /\ tiles' = [tiles EXCEPT ![r] =
                 @ \cup {[rank |-> DisplayRank, size |-> win[r]]}]
  /\ UNCHANGED <<pc, setup, win, animation>>

InitIceT(r) ==
  /\ pc[r] = "loop" /\ redisplay[r]
  /\ redisplay' = [redisplay EXCEPT ![r] = FALSE]
  /\ drawable' = [drawable EXCEPT ![r] = TRUE]
  /\ tiles' = [tiles EXCEPT ![r] = {[rank |-> DisplayRank, size |-> win[r]]}]
  /\ UNCHANGED <<pc, setup, win, animation>>

\* The user resizes the window: reshape(), and GLUT will redisplay it.
Reshape(r) ==
  /\ pc[r] = "loop"
  /\ \E s \in Sizes \ {win[r]} : win' = [win EXCEPT ![r] = s]
  /\ redisplay' = [redisplay EXCEPT ![r] = TRUE]
  /\ UNCHANGED <<pc, setup, tiles, drawable, animation>>

\* Mutant: frame never wraps.
SwapBuffers_NoWrap(r) ==
  /\ angle' = [angle EXCEPT ![r] = @ + 1]
  /\ frame' = [frame EXCEPT ![r] = @ + 1]
  /\ Goto(r, "loop")

\* Mutant: the wrap resets the wrong counter.
SwapBuffers_WrapsAngle(r) ==
  /\ angle' = [angle EXCEPT ![r] = IF frame[r] = LastFrame THEN 0 ELSE @ + 1]
  /\ frame' = [frame EXCEPT ![r] = IF @ = LastFrame THEN 0 ELSE @ + 1]
  /\ Goto(r, "loop")

\* Mutant: the angle follows the rank's own clock, not its frames.
SwapBuffers_ByClock(r) ==
  /\ \E n \in 1..2 : /\ angle[r] + n <= LastAngle + 1
                     /\ angle' = [angle EXCEPT ![r] = @ + n]
  /\ frame' = [frame EXCEPT ![r] = IF @ = LastFrame THEN 0 ELSE @ + 1]
  /\ Goto(r, "loop")

\* What DoFrame does after icetGLDrawFrame() has returned.
SwapBuffers(r) ==
  /\ angle' = [angle EXCEPT ![r] = @ + 1]
  /\ frame' = [frame EXCEPT ![r] = IF @ = LastFrame THEN 0 ELSE @ + 1]
  /\ Goto(r, "loop")

InAnimation(r) == pc[r] = "loop" /\ angle[r] <= LastAngle

\* DoFrame calls icetGLDrawFrame(), which calls Draw.
StartFrame(r) ==
  /\ InAnimation(r) /\ drawable[r]
  /\ Goto(r, "draw")
  /\ UNCHANGED <<setup, display, animation>>

\* Without a draw callback and tiles IceT reports an error and returns.
SkipFrame(r) ==
  /\ InAnimation(r) /\ ~drawable[r] /\ ~DisplayFirst
  /\ SwapBuffers(r)
  /\ UNCHANGED <<setup, display, images, shown>>

\* Draw is done; the image goes to the display rank.
SendImage(r) ==
  /\ pc[r] = "draw" /\ Len(images[r]) < MaxAhead
  /\ images' = [images EXCEPT ![r] = Append(@, Image(r))]
  /\ Goto(r, "compose")
  /\ UNCHANGED <<setup, display, angle, frame, shown>>

FinishFrame(r) ==
  /\ pc[r] = "compose" /\ r # DisplayRank
  /\ SwapBuffers(r)
  /\ UNCHANGED <<setup, display, images, shown>>

ComposeFrame(r) ==
  /\ pc[r] = "compose" /\ r = DisplayRank
  /\ \A q \in Ranks : images[q] # <<>>
  /\ shown' = [q \in Ranks |-> Head(images[q])]
  /\ images' = [q \in Ranks |-> Tail(images[q])]
  /\ SwapBuffers(r)
  /\ UNCHANGED <<setup, display>>

\* Mutant: the animation ends one frame early.
EndAnimation_Early(r) ==
  /\ pc[r] = "loop" /\ angle[r] >= LastAngle
  /\ Enter(r, 3)
  /\ Goto(r, "finalize")
  /\ UNCHANGED <<argc, particles, display, animation>>

\* The else branch of DoFrame: tear down and MPI_Finalize().
EndAnimation(r) ==
  /\ pc[r] = "loop" /\ angle[r] > LastAngle
  /\ Enter(r, 3)
  /\ Goto(r, "finalize")
  /\ UNCHANGED <<argc, particles, display, animation>>

Exit(r) ==
  /\ pc[r] = "finalize" /\ Everyone(3)
  /\ Goto(r, "exited")
  /\ UNCHANGED <<setup, display, animation>>

\* The user closes the window: GLUT exits the process.
CloseWindow(r) ==
  /\ pc[r] = "loop"
  /\ Goto(r, "dead")
  /\ UNCHANGED <<setup, display, animation>>

\* mpirun kills what is left of a job that has lost a rank.
Abort ==
  /\ \E q \in Ranks : pc[q] = "dead"
  /\ \E q \in Ranks : pc[q] \notin {"dead", "exited"}
  /\ pc' = [q \in Ranks |-> IF pc[q] = "exited" THEN "exited" ELSE "dead"]
  /\ UNCHANGED <<setup, display, animation>>

Stopped == \A r \in Ranks : pc[r] \in {"exited", "dead"}
Done == Stopped /\ UNCHANGED vars

Startup(r) ==
  \/ CheckArguments(r) \/ Load(r) \/ LoadFails(r)
  \/ OpenWindow(r) \/ EnterMainLoop(r)
DoFrame(r) ==
  \/ StartFrame(r) \/ SkipFrame(r) \/ SendImage(r)
  \/ FinishFrame(r) \/ ComposeFrame(r) \/ EndAnimation(r) \/ Exit(r)

Next ==
  \/ \E r \in Ranks : Startup(r) \/ DoFrame(r)
  \/ \E r \in Ranks : InitIceT(r) \/ Reshape(r) \/ CloseWindow(r)
  \/ Abort \/ Done

\* A process, GLUT's dispatch of a pending display callback and the launcher
\* are not stopped for ever; users need not do anything.
Spec ==
  /\ Init /\ [][Next]_vars
  /\ \A r \in Ranks : WF_vars(Startup(r)) /\ WF_vars(DoFrame(r))
                                          /\ WF_vars(InitIceT(r))
  /\ WF_vars(Abort)

-------------------------------------------------------------------------------
Places == {"start", "load", "barrier", "window", "loop", "draw", "compose",
           "finalize", "exited", "dead"}

TypeOK ==
  /\ argc \in ArgcChoices
  /\ pc \in [Ranks -> Places]
  /\ entered \in [Ranks -> 0..3]
  /\ particles \in [Ranks -> Documents \cup {None}]
  /\ win \in [Ranks -> Sizes]
  /\ tiles \in [Ranks -> SUBSET [rank : Ranks, size : Sizes]]
  /\ redisplay \in [Ranks -> BOOLEAN]
  /\ drawable \in [Ranks -> BOOLEAN]
  /\ angle \in [Ranks -> 0..(LastAngle + 1)]
  /\ frame \in [Ranks -> 0..LastFrame]
  /\ images \in [Ranks -> Seq(Images)]
  /\ \A r \in Ranks : Len(images[r]) <= MaxAhead
  /\ shown \in [Ranks -> Images] \cup {None}

PastBarrier == {"window", "loop", "draw", "compose", "finalize", "exited"}

\* No rank opens its window, draws or finishes before the particles of every
\* rank are loaded: the barrier of main() (134) keeps its promise whichever
\* rank is slow and whichever rank dies while loading.
WindowsAfterLoad ==
  \A r, q \in Ranks : pc[r] \in PastBarrier => particles[q] # None

\* The picture the display rank puts together in icetGLDrawFrame() shows one
\* moment of the animation: every rank's own particles, seen from one angle,
\* although each rank counts its angle by itself and nothing but the order of
\* its images ties it to the others (DoFrame, 354-361).
CoherentFrame ==
  shown # None =>
    \A r \in Ranks : shown[r] = [angle |-> shown[DisplayRank].angle,
                                 particles |-> particles[r]]

\* When the display rank reaches MPI_Finalize() it has shown the last frame
\* of every rank, and no rank has an image left that nobody will receive.
NothingLeftAtFinalize ==
  pc[DisplayRank] \in {"finalize", "exited"} =>
    \A r \in Ranks : images[r] = <<>> /\ shown[r].angle = LastAngle

\* Once GLUT owes a drawable rank no redisplay, IceT has exactly one tile
\* there and it is as large as the window, however often and whenever the
\* user resized it (reshape, 44-47, and InitIceT, 203-226).
TileFollowsWindow ==
  \A r \in Ranks : drawable[r] /\ ~redisplay[r] =>
    tiles[r] = {[rank |-> DisplayRank, size |-> win[r]]}

\* Every rank ends: no rank waits for ever in a collective call, at the
\* composition of a frame or in the animation, whoever fails and whichever
\* window is closed.
Terminates == <>Stopped

\* Each rank loads its particles as module Loader says: all or dead, once,
\* and in the end.
Loading(r) ==
  INSTANCE Loader
    WITH Results <- Documents,
         result <- particles[r],
         failed <- pc[r] = "dead" /\ particles[r] = None

ImplementsLoader ==
  /\ \A r \in Ranks : Loading(r)!Init
  /\ [][\A r \in Ranks : Loading(r)!Next \/ UNCHANGED Loading(r)!lvars]_vars
  /\ \A r \in Ranks : <>~Loading(r)!Pending

\* Ranks swap their buffers without meeting (360), but none gets further ahead
\* of another than the images a rank may have under way: the display rank
\* waits for the slowest, and the others for the display rank.
SkewBounded == \A r, q \in Ranks : angle[r] <= angle[q] + MaxAhead + 1
===============================================================================
