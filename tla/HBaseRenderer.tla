----------------------------- MODULE HBaseRenderer -----------------------------
(***************************************************************************)
(* The renderer that takes its particles from HBase (ice_tHbase.cpp).      *)
(* From the window on it runs as the rendering server does, so this module *)
(* extends RenderServer; before that it differs: every rank reads the row  *)
(* of one time step through the Thrift gateway before MPI_Init(), there is *)
(* no barrier, and a Thrift error leaves the rank without a frame but      *)
(* alive.  Each rank draws its slice of its own copy of the row.           *)
(*                                                                         *)
(* particles[r] is the rank's frame: the sequence of its coordinate        *)
(* columns in the order of their names, or Null.  angle counts in steps of *)
(* 0.4 degrees; this program has no frame counter (LastFrame = 0).         *)
(***************************************************************************)
EXTENDS RenderServer, SequencesExt, FiniteSets, Slices

CONSTANTS Coordinates,   \* "M:c" columns that every substr() accepts:
                         \* numbers, in name order
          OtherColumns,  \* columns whose name does not contain "M:c"
          BadColumns,    \* "M:c" columns with a name below 10 or a value
                         \* below 16 bytes
          Null,          \* the null pointer in "frame"
          MaxWrites      \* bound: changes other clients make to the row

VARIABLES row,           \* the columns of the row in HBase
          writes

hvars == <<vars, row, writes>>

Columns == Coordinates \cup OtherColumns \cup BadColumns

\* HBase returns the columns as a map, in the order of their names.
Before(S, c) == Cardinality({d \in S : d < c})
InOrder(S) == [i \in 1..Cardinality(S) |-> CHOOSE c \in S : Before(S, c) = i - 1]

\* Mutant: find("M:c") is dropped.
FrameOf_All(columns) == InOrder(columns \ BadColumns)

FrameOf(columns) == InOrder(columns \cap Coordinates)

HInit ==
  /\ Init
  /\ row \in SUBSET Columns
  /\ writes = 0

\* main() looks at no argument: it starts with the query.
Start(r) ==
  /\ pc[r] = "start"
  /\ Goto(r, "load")
  /\ UNCHANGED <<setup, display, animation, row, writes>>

\* createFrameHBase(): one getRow(), then a particle for each coordinate
\* column.
Fetch(r) ==
  /\ pc[r] = "load" /\ row \cap BadColumns = {}
  /\ particles' = [particles EXCEPT ![r] = FrameOf(row)]
  /\ Goto(r, "fetched")
  /\ UNCHANGED <<argc, entered, display, animation, row, writes>>

\* substr() throws out_of_range, which is no TException: terminate().
FetchDies(r) ==
  /\ pc[r] = "load" /\ row \cap BadColumns # {}
  /\ Goto(r, "dead")
  /\ UNCHANGED <<setup, display, animation, row, writes>>

\* open() or getRow() throws a TException: caught, reported, and on.
FetchThrows(r) ==
  /\ pc[r] = "load"
  /\ particles' = [particles EXCEPT ![r] = Null]
  /\ Goto(r, "fetched")
  /\ UNCHANGED <<argc, entered, display, animation, row, writes>>

\* MPI_Init(), the window, and IceT's duplicate of MPI_COMM_WORLD.
MakeWindow(r) ==
  /\ pc[r] = "fetched"
  /\ redisplay' = [redisplay EXCEPT ![r] = TRUE]
  /\ Enter(r, 2)
  /\ Goto(r, "window")
  /\ UNCHANGED <<argc, particles, win, tiles, drawable, animation, row, writes>>

\* Mutant: Draw returns when there is no frame.
DrawCrashes_Returns(r) ==
  /\ pc[r] = "draw" /\ particles[r] = Null
  /\ SendImage(r)
  /\ UNCHANGED <<row, writes>>

\* Draw dereferences a null "frame".
DrawCrashes(r) ==
  /\ pc[r] = "draw" /\ particles[r] = Null
  /\ Goto(r, "dead")
  /\ UNCHANGED <<setup, display, animation, row, writes>>

\* Draw with a frame; the image is of the rank's slice (Drawn below).
DrawSlice(r) ==
  /\ particles[r] # Null
  /\ SendImage(r)
  /\ UNCHANGED <<row, writes>>

\* Any other client of HBase puts or deletes a column of the row.
WriteRow ==
  /\ writes < MaxWrites
  /\ writes' = writes + 1
  /\ \E c \in Columns : row' = IF c \in row THEN row \ {c} ELSE row \cup {c}
  /\ UNCHANGED vars

FetchStep(r) ==
  \/ Start(r) \/ Fetch(r) \/ FetchDies(r) \/ FetchThrows(r) \/ MakeWindow(r)
DrawStep(r) == DrawSlice(r) \/ DrawCrashes(r)
LoopStep(r) ==
  /\ \/ EnterMainLoop(r) \/ StartFrame(r) \/ SkipFrame(r) \/ FinishFrame(r)
     \/ ComposeFrame(r) \/ EndAnimation(r) \/ Exit(r)
  /\ UNCHANGED <<row, writes>>
WindowStep(r) ==
  /\ InitIceT(r) \/ Reshape(r) \/ CloseWindow(r)
  /\ UNCHANGED <<row, writes>>
AbortStep == Abort /\ UNCHANGED <<row, writes>>

HNext ==
  \/ \E r \in Ranks : FetchStep(r) \/ DrawStep(r) \/ LoopStep(r) \/ WindowStep(r)
  \/ AbortStep \/ WriteRow
  \/ Done /\ UNCHANGED <<row, writes>>

\* As in RenderServer.  The Thrift gateway answers every query or breaks the
\* connection: the client's socket has no timeout of its own.
HSpec ==
  /\ HInit /\ [][HNext]_hvars
  /\ \A r \in Ranks : /\ WF_hvars(FetchStep(r)) /\ WF_hvars(DrawStep(r))
                      /\ WF_hvars(LoopStep(r))
                      /\ WF_hvars(InitIceT(r) /\ UNCHANGED <<row, writes>>)
  /\ WF_hvars(AbortStep)

-------------------------------------------------------------------------------
Frames == {FrameOf(c) : c \in SUBSET Coordinates}

\* A frame is neither a null pointer nor a frame still to be asked for; column
\* names are bounded in length, so there are finitely many.
ASSUME HBaseRendererAssumption ==
  /\ Null # None /\ Null \notin Frames /\ None \notin Frames
  /\ MaxWrites \in Nat
  /\ Coordinates \subseteq Int /\ IsFiniteSet(Coordinates)

\* The state has its type; a rank's particles are a frame it has asked for, a
\* null pointer or nothing yet.
HTypeOK ==
  /\ pc \in [Ranks -> Places \cup {"fetched"}]
  /\ particles \in [Ranks -> Frames \cup {Null, None}]
  /\ row \in SUBSET Columns
  /\ writes \in 0..MaxWrites

\* The particles rank r draws of frame f.
Drawn(f, r) == {f[i + 1] : i \in Slice(Len(f), NumProc, r)}

\* When all ranks read the same version of the row, the picture shows no
\* particle twice and fewer than NumProc particles of the frame are missing
\* from it: those that the division left over (Draw, 349-351).
EachParticleOnce ==
  shown # None =>
    LET f == shown[DisplayRank].particles
    IN  (\A r \in Ranks : shown[r].particles = f) =>
          /\ \A r, q \in Ranks : r # q => Drawn(f, r) \cap Drawn(f, q) = {}
          /\ Cardinality(ToSet(f) \ UNION {Drawn(f, r) : r \in Ranks}) < NumProc

\* A rank that got no frame, whatever the reason, takes no part in any
\* picture: there is no picture (main, 142-155, and Draw, 348).
NoPictureWithoutFrames ==
  shown # None => \A r \in Ranks : particles[r] \in Frames

\* No rank is left waiting for ever: not for one that could not read its row
\* either.
HTerminates == <>Stopped
===============================================================================
