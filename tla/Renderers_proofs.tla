--------------------------- MODULE Renderers_proofs ---------------------------
(***************************************************************************)
(* Proofs about the two renderers, for every number of ranks: of           *)
(* RenderServer for every length of the animation and bound on the images  *)
(* under way; of Slices for every number of particles; of HBaseRenderer,   *)
(* which goes on as RenderServer does, for every row and any changes other *)
(* clients make to it.                                                     *)
(***************************************************************************)
EXTENDS HBaseRenderer, SequenceTheorems, FiniteSetTheorems, FunctionTheorems, TLAPS

-------------------------------------------------------------------------------
(* The rendering server: types.                                              *)

\* TypeOK is inductive once it says that only a rank whose angle is still
\* within the animation draws.
TypeInv ==
  /\ TypeOK
  /\ \A r \in Ranks : pc[r] \in {"draw", "compose"} => angle[r] <= LastAngle

\* The initial states have the right types.
LEMMA InitTypeInv == Init => TypeInv
  BY RenderServerAssumption DEF Init, TypeInv, TypeOK, Places, Ranks, Images

\* Every step keeps the types.
LEMMA TypeStep == TypeInv /\ [Next]_vars => TypeInv'
<1> SUFFICES ASSUME TypeInv, [Next]_vars PROVE TypeInv'
  OBVIOUS
<1> USE RenderServerAssumption DEF TypeInv, TypeOK, Places, Goto, Enter, setup, display,
        animation
<1>1. ASSUME NEW r \in Ranks, CheckArguments(r) PROVE TypeInv'
  BY <1>1 DEF CheckArguments
<1>2. ASSUME NEW r \in Ranks, Load(r) PROVE TypeInv'
  BY <1>2 DEF Load
<1>3. ASSUME NEW r \in Ranks, LoadFails(r) PROVE TypeInv'
  BY <1>3 DEF LoadFails
<1>4. ASSUME NEW r \in Ranks, OpenWindow(r) PROVE TypeInv'
  BY <1>4 DEF OpenWindow
<1>5. ASSUME NEW r \in Ranks, EnterMainLoop(r) PROVE TypeInv'
  BY <1>5 DEF EnterMainLoop
<1>6. ASSUME NEW r \in Ranks, InitIceT(r) PROVE TypeInv'
  <2>1. {[rank |-> DisplayRank, size |-> win[r]]} \in
          SUBSET [rank : Ranks, size : Sizes]
    BY DEF DisplayRank, Ranks
  <2>2. tiles' \in [Ranks -> SUBSET [rank : Ranks, size : Sizes]]
    BY <1>6, <2>1, Zenon DEF InitIceT
  <2> QED
    BY <1>6, <2>2 DEF InitIceT
<1>7. ASSUME NEW r \in Ranks, Reshape(r) PROVE TypeInv'
  BY <1>7 DEF Reshape
<1>8. ASSUME NEW r \in Ranks, StartFrame(r) PROVE TypeInv'
  BY <1>8 DEF StartFrame, InAnimation
<1>9. ASSUME NEW r \in Ranks, SkipFrame(r) PROVE TypeInv'
  BY <1>9 DEF SkipFrame, InAnimation, SwapBuffers
<1>10. ASSUME NEW r \in Ranks, SendImage(r) PROVE TypeInv'
  <2>1. Image(r) \in Images
    BY <1>10 DEF SendImage, Image, Images
  <2> QED
    BY <2>1, <1>10 DEF SendImage
<1>11. ASSUME NEW r \in Ranks, FinishFrame(r) PROVE TypeInv'
  BY <1>11 DEF FinishFrame, SwapBuffers
<1>12. ASSUME NEW r \in Ranks, ComposeFrame(r) PROVE TypeInv'
  <2>1. \A q \in Ranks : Head(images[q]) \in Images /\ Tail(images[q]) \in Seq(Images)
                       /\ Len(Tail(images[q])) <= MaxAhead
    BY <1>12, HeadTailProperties DEF ComposeFrame
  <2> QED
    BY <2>1, <1>12 DEF ComposeFrame, SwapBuffers
<1>13. ASSUME NEW r \in Ranks, EndAnimation(r) PROVE TypeInv'
  BY <1>13 DEF EndAnimation
<1>14. ASSUME NEW r \in Ranks, Exit(r) PROVE TypeInv'
  BY <1>14 DEF Exit
<1>15. ASSUME NEW r \in Ranks, CloseWindow(r) PROVE TypeInv'
  BY <1>15 DEF CloseWindow
<1>16. CASE Abort
  BY <1>16 DEF Abort
<1>17. CASE UNCHANGED vars
  BY <1>17 DEF vars
<1> QED
  BY <1>1, <1>2, <1>3, <1>4, <1>5, <1>6, <1>7, <1>8, <1>9, <1>10, <1>11, <1>12,
     <1>13, <1>14, <1>15, <1>16, <1>17 DEF Next, Startup, DoFrame, Done

\* Every variable keeps its type, whatever the ranks, GLUT and the users do.
THEOREM TypeCorrect == Spec => []TypeOK
<1>1. TypeInv => TypeOK
  BY DEF TypeInv
<1> QED
  BY <1>1, InitTypeInv, TypeStep, PTL DEF Spec

-------------------------------------------------------------------------------
(* The barrier.                                                              *)

\* A rank enters its first collective call after it has loaded, and is past
\* the barrier only if every rank has entered it.
BarrierInv ==
  /\ \A r \in Ranks : entered[r] >= 1 => particles[r] # None
  /\ \A r \in Ranks : pc[r] \in PastBarrier => Everyone(1)

\* Initially no rank has entered the barrier.
LEMMA InitBarrierInv == Init => BarrierInv
  BY DEF Init, BarrierInv, PastBarrier

\* Entering the barrier, passing it and every later step keep BarrierInv.
LEMMA BarrierStep == TypeInv /\ BarrierInv /\ [Next]_vars => BarrierInv'
<1> SUFFICES ASSUME TypeInv, BarrierInv, [Next]_vars PROVE BarrierInv'
  OBVIOUS
<1> USE RenderServerAssumption DEF TypeInv, TypeOK, Places, BarrierInv, PastBarrier,
        Everyone, Goto, Enter, setup, display, animation
<1>1. ASSUME NEW r \in Ranks, CheckArguments(r) PROVE BarrierInv'
  BY <1>1 DEF CheckArguments
<1>2. ASSUME NEW r \in Ranks, Load(r) PROVE BarrierInv'
  BY <1>2 DEF Load
<1>3. ASSUME NEW r \in Ranks, LoadFails(r) PROVE BarrierInv'
  BY <1>3 DEF LoadFails
<1>4. ASSUME NEW r \in Ranks, OpenWindow(r) PROVE BarrierInv'
  BY <1>4 DEF OpenWindow
<1>5. ASSUME NEW r \in Ranks, EnterMainLoop(r) PROVE BarrierInv'
  BY <1>5 DEF EnterMainLoop
<1>6. ASSUME NEW r \in Ranks, InitIceT(r) \/ Reshape(r) \/ CloseWindow(r)
      PROVE  BarrierInv'
  BY <1>6 DEF InitIceT, Reshape, CloseWindow
<1>7. ASSUME NEW r \in Ranks, StartFrame(r) \/ SkipFrame(r) \/ SendImage(r)
      PROVE  BarrierInv'
  <2>1. /\ pc[r] \in {"loop", "draw"}
        /\ \E to \in {"loop", "draw", "compose"} : Goto(r, to)
        /\ UNCHANGED <<entered, particles>>
    BY <1>7 DEF StartFrame, SkipFrame, InAnimation, SwapBuffers, SendImage
  <2> QED
    BY <2>1
<1>8. ASSUME NEW r \in Ranks, FinishFrame(r) \/ ComposeFrame(r)
      PROVE  BarrierInv'
  <2>1. pc[r] = "compose" /\ Goto(r, "loop") /\ UNCHANGED <<entered, particles>>
    BY <1>8 DEF FinishFrame, ComposeFrame, SwapBuffers
  <2> QED
    BY <2>1
<1>9. ASSUME NEW r \in Ranks, EndAnimation(r) \/ Exit(r) PROVE BarrierInv'
  <2>1. CASE EndAnimation(r)
    BY <2>1 DEF EndAnimation
  <2>2. CASE Exit(r)
    BY <2>2 DEF Exit
  <2> QED
    BY <1>9, <2>1, <2>2
<1>10. CASE Abort
  BY <1>10 DEF Abort
<1>11. CASE UNCHANGED vars
  BY <1>11 DEF vars
<1> QED
  BY <1>1, <1>2, <1>3, <1>4, <1>5, <1>6, <1>7, <1>8, <1>9, <1>10, <1>11
  DEF Next, Startup, DoFrame, Done

\* No rank is past MPI_Barrier() (server.cxx, 134) before every rank has its
\* particles.
THEOREM BarrierHolds == Spec => []WindowsAfterLoad
<1>1. TypeInv /\ BarrierInv => WindowsAfterLoad
  BY DEF TypeInv, TypeOK, BarrierInv, WindowsAfterLoad, Everyone
<1> QED
  BY <1>1, InitTypeInv, TypeStep, InitBarrierInv, BarrierStep, PTL DEF Spec

-------------------------------------------------------------------------------
(* Loading, rank by rank.                                                    *)

\* A rank has nothing before it loads.
LoadInv == \A r \in Ranks : pc[r] \in {"start", "load"} => particles[r] = None

\* What a step does to one rank's particles, and to its life: it loads them,
\* or leaves them alone and raises nobody from the dead.
LEMMA RankStep ==
  ASSUME TypeInv, [Next]_vars, NEW r \in Ranks
  PROVE  \/ /\ pc[r] = "load" /\ pc'[r] = "barrier"
            /\ particles'[r] \in Documents
         \/ /\ particles'[r] = particles[r]
            /\ pc[r] = "dead" => pc'[r] = "dead"
            /\ pc'[r] \in {"start", "load"} => pc[r] \in {"start", "load"}
<1> USE DEF Goto, setup
<1> DEFINE Kept == /\ particles'[r] = particles[r]
                   /\ pc[r] = "dead" => pc'[r] = "dead"
                   /\ pc'[r] \in {"start", "load"} => pc[r] \in {"start", "load"}
<1>0. pc \in [Ranks -> Places] /\ particles \in [Ranks -> Documents \cup {None}]
  BY DEF TypeInv, TypeOK
<1>1. ASSUME NEW q \in Ranks, Load(q)
      PROVE  \/ /\ pc[r] = "load" /\ pc'[r] = "barrier"
                /\ particles'[r] \in Documents
             \/ Kept
  BY <1>0, <1>1 DEF Load
<1>2. ASSUME NEW q \in Ranks,
             CheckArguments(q) \/ LoadFails(q) \/ OpenWindow(q) \/ EnterMainLoop(q)
      PROVE  Kept
  BY <1>0, <1>2 DEF CheckArguments, LoadFails, OpenWindow, EnterMainLoop
<1>3. ASSUME NEW q \in Ranks, DoFrame(q) PROVE Kept
  <2>1. /\ pc[q] \in {"loop", "draw", "compose", "finalize"}
        /\ \E to \in {"loop", "draw", "compose", "finalize", "exited"} : Goto(q, to)
        /\ UNCHANGED particles
    BY <1>3 DEF DoFrame, StartFrame, SkipFrame, InAnimation, SwapBuffers, SendImage,
       FinishFrame, ComposeFrame, EndAnimation, Exit
  <2> QED
    BY <1>0, <2>1
<1>4. ASSUME NEW q \in Ranks, InitIceT(q) \/ Reshape(q) \/ CloseWindow(q)
      PROVE  Kept
  BY <1>0, <1>4 DEF InitIceT, Reshape, CloseWindow
<1>5. CASE Abort
  BY <1>0, <1>5 DEF Abort
<1>6. CASE UNCHANGED vars
  BY <1>6 DEF vars
<1> QED
  BY <1>1, <1>2, <1>3, <1>4, <1>5, <1>6 DEF Next, Startup, Done

\* Initially nothing is loaded, and every step keeps LoadInv.
LEMMA InitLoadInv == Init => LoadInv
  BY DEF Init, LoadInv

LEMMA LoadStep == TypeInv /\ LoadInv /\ [Next]_vars => LoadInv'
  BY RankStep DEF LoadInv

\* Each rank's particles are filled as module Loader says, as far as safety
\* goes (server.cxx, 127-131): once, with the particles of a document, or the
\* rank is dead without any; for any number of ranks.
THEOREM LoadedOrDead ==
  Spec => /\ \A r \in Ranks : Loading(r)!Init
          /\ [][\A r \in Ranks : Loading(r)!Next \/ UNCHANGED Loading(r)!lvars]_vars
<1>1. Init => \A r \in Ranks : Loading(r)!Init
  BY DEF Init, Loading!Init
<1>2. TypeInv /\ LoadInv /\ [Next]_vars =>
        \A r \in Ranks : Loading(r)!Next \/ UNCHANGED Loading(r)!lvars
  <2> SUFFICES ASSUME TypeInv, LoadInv, [Next]_vars, NEW r \in Ranks
               PROVE  Loading(r)!Next \/ UNCHANGED Loading(r)!lvars
    OBVIOUS
  <2>1. CASE pc[r] = "load" /\ pc'[r] = "barrier" /\ particles'[r] \in Documents
    <3>1. particles[r] = None /\ pc[r] # "dead" /\ pc'[r] # "dead"
      BY <2>1 DEF LoadInv
    <3> QED
      BY <2>1, <3>1 DEF Loading!Next, Loading!Finish, Loading!Pending
  <2>2. CASE particles'[r] = particles[r] /\ (pc[r] = "dead" => pc'[r] = "dead")
    <3>1. CASE particles[r] = None /\ pc[r] # "dead" /\ pc'[r] = "dead"
      BY <2>2, <3>1 DEF Loading!Next, Loading!Fail, Loading!Pending
    <3>2. CASE ~(particles[r] = None /\ pc[r] # "dead" /\ pc'[r] = "dead")
      <4>1. (pc[r] = "dead" /\ particles[r] = None)
              <=> (pc'[r] = "dead" /\ particles'[r] = None)
        BY <2>2, <3>2
      <4> QED
        BY <2>2, <4>1 DEF Loading!lvars
    <3> QED
      BY <3>1, <3>2
  <2> QED
    BY <2>1, <2>2, RankStep
<1> QED
  BY <1>1, <1>2, InitTypeInv, TypeStep, InitLoadInv, LoadStep, PTL DEF Spec

-------------------------------------------------------------------------------
(* One moment of the animation per picture.  From here on GLUT sets a rank   *)
(* up before it draws.                                                       *)

\* Frames whose image rank r has sent.
Sent(r) == IF pc[r] = "compose" THEN angle[r] + 1 ELSE angle[r]

\* Image number n of rank r.
NthImage(r, n) == [angle |-> n, particles |-> particles[r]]

\* Of the images a living rank has sent, those the display rank has not
\* composed are under way; they are consecutive frames, starting with the
\* display rank's next one; the frame before that is on display.
CoherentInv ==
  /\ \A r \in Ranks : pc[r] # "dead" => Sent(r) = angle[0] + Len(images[r])
  /\ \A r \in Ranks : \A k \in 1..Len(images[r]) :
       images[r][k] = NthImage(r, angle[0] + k - 1)
  /\ angle[0] = 0 => shown = None
  /\ angle[0] # 0 => shown = [r \in Ranks |-> NthImage(r, angle[0] - 1)]
  /\ \A r \in Ranks : pc[r] \in {"start", "load"} => angle[r] = 0
  /\ pc[0] \in {"finalize", "exited"} => angle[0] = LastAngle + 1

\* Nothing has been drawn in the initial states.
LEMMA InitCoherentInv == Init => CoherentInv
  BY RenderServerAssumption DEF Init, CoherentInv, Sent, Ranks

\* Rank 0 is a rank, and the display rank.
LEMMA DisplayRankIsRank == DisplayRank = 0 /\ 0 \in Ranks
  BY RenderServerAssumption DEF DisplayRank, Ranks

\* A step that neither draws nor loads keeps CoherentInv if it moves ranks
\* only outside the drawing of a frame, or kills them.
LEMMA ElsewhereStep ==
  ASSUME TypeInv, CoherentInv,
         UNCHANGED <<particles, animation>>,
         \A q \in Ranks :
           \/ pc'[q] \in {pc[q], "dead"}
           \/ /\ pc[q] \notin {"compose", "dead"}
              /\ pc'[q] \notin {"compose", "start"}
              /\ pc'[q] = "load" => pc[q] = "start"
              /\ pc'[q] \in {"finalize", "exited"} =>
                   \/ pc[q] \in {"finalize", "exited"}
                   \/ angle[q] = LastAngle + 1
  PROVE  CoherentInv'
<1>1. \A q \in Ranks : pc'[q] # "dead" => pc[q] # "dead" /\ Sent(q)' = Sent(q)
  BY DEF TypeInv, TypeOK, Sent, animation
<1>2. \A q \in Ranks : pc'[q] \in {"start", "load"} => pc[q] \in {"start", "load"}
  OBVIOUS
<1>3. pc'[0] \in {"finalize", "exited"} => angle[0] = LastAngle + 1
  BY DisplayRankIsRank DEF CoherentInv
<1> QED
  BY <1>1, <1>2, <1>3 DEF CoherentInv, NthImage, animation

\* Every step of a set-up job keeps CoherentInv.
LEMMA CoherentStep ==
  DisplayFirst /\ TypeInv /\ CoherentInv /\ [Next]_vars => CoherentInv'
<1> SUFFICES ASSUME DisplayFirst, TypeInv, CoherentInv, [Next]_vars
             PROVE  CoherentInv'
  OBVIOUS
<1> USE RenderServerAssumption DEF Goto, Enter
<1>0. /\ pc \in [Ranks -> Places] /\ angle \in [Ranks -> Nat]
      /\ particles \in [Ranks -> Documents \cup {None}]
      /\ images \in [Ranks -> Seq(Images)]
      /\ \A q \in Ranks : Len(images[q]) \in Nat
  <2>1. pc \in [Ranks -> Places]
    BY DEF TypeInv, TypeOK
  <2>2. angle \in [Ranks -> Nat]
    BY DEF TypeInv, TypeOK
  <2>3. images \in [Ranks -> Seq(Images)]
    BY DEF TypeInv, TypeOK
  <2> QED
    BY <2>1, <2>2, <2>3, LenProperties DEF TypeInv, TypeOK
<1>1. ASSUME NEW r \in Ranks,
             CheckArguments(r) \/ LoadFails(r) \/ OpenWindow(r) \/ EnterMainLoop(r)
      PROVE  CoherentInv'
  <2>1. UNCHANGED <<particles, animation>>
    BY <1>1 DEF CheckArguments, LoadFails, OpenWindow, EnterMainLoop, setup
  <2>2. \A q \in Ranks : \/ pc'[q] \in {pc[q], "dead"}
                         \/ pc[q] = "start" /\ pc'[q] = "load"
                         \/ pc[q] = "barrier" /\ pc'[q] = "window"
                         \/ pc[q] = "window" /\ pc'[q] = "loop"
    BY <1>0, <1>1 DEF CheckArguments, LoadFails, OpenWindow, EnterMainLoop
  <2> QED
    BY <2>1, <2>2, ElsewhereStep
<1>2. ASSUME NEW r \in Ranks, Load(r) PROVE CoherentInv'
  <2>1. angle[r] = 0 /\ Len(images[r]) = 0 /\ angle[0] = 0
    <3>1. angle[r] = 0 /\ Sent(r) = angle[r]
      BY <1>2 DEF Load, CoherentInv, Sent
    <3>2. Sent(r) = angle[0] + Len(images[r])
      BY <1>2 DEF Load, CoherentInv
    <3>3. angle[0] \in Nat /\ Len(images[r]) \in Nat
      BY <1>0, DisplayRankIsRank
    <3> QED
      BY <3>1, <3>2, <3>3
  <2>2. pc' = [pc EXCEPT ![r] = "barrier"] /\ UNCHANGED animation
    BY <1>2 DEF Load
  <2>3. \A q \in Ranks : q # r => particles'[q] = particles[q]
    BY <1>0, <1>2 DEF Load
  <2>4. \A q \in Ranks : pc'[q] # "dead" => pc[q] # "dead" /\ Sent(q)' = Sent(q)
    BY <1>0, <1>2, <2>2 DEF Sent, animation, Load
  <2>5. \A q \in Ranks : \A k \in 1..Len(images[q]) :
          NthImage(q, angle[0] + k - 1)' = NthImage(q, angle[0] + k - 1)
    BY <2>1, <2>2, <2>3 DEF NthImage, animation
  <2> QED
    BY <1>0, <2>1, <2>2, <2>4, <2>5 DEF CoherentInv, animation
<1>3. ASSUME NEW r \in Ranks, InitIceT(r) \/ Reshape(r) \/ CloseWindow(r)
      PROVE  CoherentInv'
  <2>1. UNCHANGED <<particles, animation>>
    BY <1>3 DEF InitIceT, Reshape, CloseWindow, setup
  <2>2. \A q \in Ranks : pc'[q] \in {pc[q], "dead"}
    BY <1>0, <1>3 DEF InitIceT, Reshape, CloseWindow
  <2> QED
    BY <2>1, <2>2, ElsewhereStep
<1>4. ASSUME NEW r \in Ranks, StartFrame(r) PROVE CoherentInv'
  <2>1. UNCHANGED <<particles, animation>>
    BY <1>4 DEF StartFrame, setup
  <2>2. \A q \in Ranks : pc'[q] = pc[q] \/ (pc[q] = "loop" /\ pc'[q] = "draw")
    BY <1>0, <1>4 DEF StartFrame, InAnimation
  <2> QED
    BY <2>1, <2>2, ElsewhereStep
<1>5. ASSUME NEW r \in Ranks, SkipFrame(r) PROVE CoherentInv'
  BY <1>5 DEF SkipFrame
<1>6. ASSUME NEW r \in Ranks, SendImage(r) PROVE CoherentInv'
  <2>1. /\ pc[r] = "draw" /\ pc' = [pc EXCEPT ![r] = "compose"]
        /\ images' = [images EXCEPT ![r] = Append(@, Image(r))]
        /\ UNCHANGED <<particles, angle, shown>>
    BY <1>6 DEF SendImage, setup
  <2>2. Image(r) = NthImage(r, angle[0] + Len(images[r]))
    BY <1>0, <2>1 DEF CoherentInv, Sent, Image, NthImage
  <2>3. /\ Len(images'[r]) = Len(images[r]) + 1
        /\ images'[r][Len(images[r]) + 1] = Image(r)
        /\ \A k \in 1..Len(images[r]) : images'[r][k] = images[r][k]
        /\ \A q \in Ranks : q # r => images'[q] = images[q]
    <3>1. /\ images'[r] = Append(images[r], Image(r))
          /\ \A q \in Ranks : q # r => images'[q] = images[q]
      BY <1>0, <2>1
    <3>2. images[r] \in Seq(Images) /\ Image(r) \in Images
      <4>1. angle[r] \in 0..LastAngle /\ particles[r] \in Documents \cup {None}
        BY <1>0, <2>1 DEF TypeInv, TypeOK
      <4> QED
        BY <1>0, <4>1 DEF Image, Images
    <3> QED
      BY <3>1, <3>2, AppendProperties
  <2>4. \A q \in Ranks : pc'[q] # "dead" =>
          Sent(q)' = angle[0] + Len(images'[q])
    <3>1. angle[0] \in Nat /\ Len(images[r]) \in Nat /\ angle[r] \in Nat
      BY <1>0, DisplayRankIsRank
    <3>2. Sent(r)' = angle[r] + 1 /\ Sent(r) = angle[r]
      BY <1>0, <2>1 DEF Sent
    <3>3. Sent(r) = angle[0] + Len(images[r])
      BY <2>1 DEF CoherentInv
    <3>4. \A q \in Ranks : q # r => pc'[q] = pc[q] /\ Sent(q)' = Sent(q)
      BY <1>0, <2>1 DEF Sent
    <3> QED
      <4>1. \A q \in Ranks : pc[q] # "dead" =>
              Sent(q) = angle[0] + Len(images[q])
        BY DEF CoherentInv
      <4>2. Sent(r)' = angle[0] + Len(images'[r])
        BY <2>3, <3>1, <3>2, <3>3
      <4> QED
        BY <2>3, <3>4, <4>1, <4>2
  <2>5. \A q \in Ranks : \A k \in 1..Len(images'[q]) :
          images'[q][k] = NthImage(q, angle[0] + k - 1)
    <3>1. \A k \in 1..Len(images'[r]) : images'[r][k] = NthImage(r, angle[0] + k - 1)
      <4> TAKE k \in 1..Len(images'[r])
      <4>1. CASE k = Len(images[r]) + 1
        <5>1. angle[0] + k - 1 = angle[0] + Len(images[r])
          BY <1>0, <4>1, DisplayRankIsRank
        <5> QED
          BY <2>2, <2>3, <4>1, <5>1
      <4>2. CASE k # Len(images[r]) + 1
        <5>1. k \in 1..Len(images[r])
          BY <1>0, <2>3, <4>2
        <5> QED
          BY <2>3, <5>1 DEF CoherentInv
      <4> QED
        BY <4>1, <4>2
    <3>2. ASSUME NEW q \in Ranks, q # r, NEW k \in 1..Len(images'[q])
          PROVE  images'[q][k] = NthImage(q, angle[0] + k - 1)
      <4>1. images'[q] = images[q]
        BY <2>3, <3>2
      <4> QED
        BY <3>2, <4>1 DEF CoherentInv
    <3> QED
      BY <3>1, <3>2
  <2> QED
    BY <1>0, <2>1, <2>4, <2>5 DEF CoherentInv, NthImage
<1>7. ASSUME NEW r \in Ranks, FinishFrame(r) PROVE CoherentInv'
  <2>1. /\ pc[r] = "compose" /\ r # 0 /\ pc' = [pc EXCEPT ![r] = "loop"]
        /\ angle' = [angle EXCEPT ![r] = @ + 1]
        /\ UNCHANGED <<particles, images, shown>>
    BY <1>7, DisplayRankIsRank DEF FinishFrame, SwapBuffers, setup
  <2>2. \A q \in Ranks : Sent(q)' = Sent(q)
    BY <1>0, <2>1 DEF Sent
  <2>3. angle'[0] = angle[0]
    BY <1>0, <2>1, DisplayRankIsRank
  <2> QED
    BY <1>0, <2>1, <2>2, <2>3, DisplayRankIsRank DEF CoherentInv, NthImage
<1>8. ASSUME NEW r \in Ranks, ComposeFrame(r) PROVE CoherentInv'
  <2>1. /\ r = 0 /\ pc[0] = "compose" /\ pc' = [pc EXCEPT ![0] = "loop"]
        /\ angle' = [angle EXCEPT ![0] = @ + 1]
        /\ \A q \in Ranks : images[q] # <<>>
        /\ shown' = [q \in Ranks |-> Head(images[q])]
        /\ images' = [q \in Ranks |-> Tail(images[q])]
        /\ UNCHANGED particles
    BY <1>8, DisplayRankIsRank DEF ComposeFrame, SwapBuffers, setup
  <2>2. \A q \in Ranks :
          /\ Len(images[q]) \in Nat \ {0}
          /\ Head(images[q]) = images[q][1]
          /\ Len(images'[q]) = Len(images[q]) - 1
          /\ \A k \in 1..Len(images'[q]) : images'[q][k] = images[q][k + 1]
    BY <1>0, <2>1
  <2>3. angle'[0] = angle[0] + 1
    BY <1>0, <2>1, DisplayRankIsRank
  <2>4. \A q \in Ranks : pc'[q] # "dead" =>
          Sent(q)' = angle'[0] + Len(images'[q])
    <3>1. angle[0] \in Nat
      BY <1>0, DisplayRankIsRank
    <3>2. \A q \in Ranks : pc'[q] # "dead" => pc[q] # "dead" /\ Sent(q)' = Sent(q)
      BY <1>0, <2>1 DEF Sent
    <3> QED
      <4> SUFFICES ASSUME NEW q \in Ranks, pc'[q] # "dead"
                   PROVE  Sent(q)' = angle'[0] + Len(images'[q])
        OBVIOUS
      <4>1. Sent(q) = angle[0] + Len(images[q])
        BY <3>2 DEF CoherentInv
      <4>2. /\ Len(images[q]) \in Nat
            /\ Len(images'[q]) = Len(images[q]) - 1
        BY <2>2
      <4> QED
        BY <2>3, <3>1, <3>2, <4>1, <4>2
  <2>5. \A q \in Ranks : \A k \in 1..Len(images'[q]) :
          images'[q][k] = NthImage(q, angle'[0] + k - 1)
    <3> TAKE q \in Ranks
    <3> TAKE k \in 1..Len(images'[q])
    <3>1. k + 1 \in 1..Len(images[q])
      BY <2>2
    <3>2. angle[0] + (k + 1) - 1 = angle'[0] + k - 1
      BY <1>0, <2>2, <2>3, DisplayRankIsRank
    <3> QED
      BY <2>2, <3>1, <3>2 DEF CoherentInv
  <2>6. shown' = [q \in Ranks |-> NthImage(q, angle'[0] - 1)]
    <3>1. \A q \in Ranks : images[q][1] = NthImage(q, angle[0] + 1 - 1)
      BY <2>2 DEF CoherentInv
    <3>2. angle[0] + 1 - 1 = angle'[0] - 1
      BY <1>0, <2>3, DisplayRankIsRank
    <3> QED
      BY <2>1, <2>2, <3>1, <3>2
  <2> QED
    BY <1>0, <2>1, <2>3, <2>4, <2>5, <2>6, DisplayRankIsRank
    DEF CoherentInv, NthImage
<1>9. ASSUME NEW r \in Ranks, EndAnimation(r) \/ Exit(r) PROVE CoherentInv'
  <2>1. UNCHANGED <<particles, animation>>
    BY <1>9 DEF EndAnimation, Exit, setup
  <2>2. \A q \in Ranks : \/ pc'[q] = pc[q]
                         \/ /\ pc[q] = "loop" /\ pc'[q] = "finalize"
                            /\ angle[q] > LastAngle
                         \/ pc[q] = "finalize" /\ pc'[q] = "exited"
    BY <1>0, <1>9 DEF EndAnimation, Exit
  <2>3. \A q \in Ranks : angle[q] > LastAngle => angle[q] = LastAngle + 1
    BY DEF TypeInv, TypeOK
  <2> QED
    BY <2>1, <2>2, <2>3, ElsewhereStep
<1>10. CASE Abort
  <2>1. UNCHANGED <<particles, animation>>
    BY <1>10 DEF Abort, setup
  <2>2. \A q \in Ranks : pc'[q] \in {pc[q], "dead"}
    BY <1>0, <1>10 DEF Abort
  <2> QED
    BY <2>1, <2>2, ElsewhereStep
<1>11. CASE UNCHANGED vars
  BY <1>11 DEF vars, CoherentInv, Sent, NthImage
<1> QED
  BY <1>1, <1>2, <1>3, <1>4, <1>5, <1>6, <1>7, <1>8, <1>9, <1>10, <1>11
  DEF Next, Startup, DoFrame, Done

\* If GLUT sets every rank up before its first frame, no picture mixes two
\* moments of the animation (DoFrame, 354-361).
THEOREM PicturesAreCoherent == DisplayFirst /\ Spec => []CoherentFrame
<1> SUFFICES ASSUME DisplayFirst PROVE Spec => []CoherentFrame
  OBVIOUS
<1>1. TypeInv /\ CoherentInv => CoherentFrame
  BY DisplayRankIsRank DEF CoherentInv, CoherentFrame, NthImage
<1>2. TypeInv /\ CoherentInv /\ [Next]_vars => CoherentInv'
  BY CoherentStep
<1> QED
  BY <1>1, <1>2, InitTypeInv, TypeStep, InitCoherentInv, PTL DEF Spec

\* The display rank does not reach MPI_Finalize() (376) while an image is
\* under way or a frame has not been shown.
THEOREM FinalizeComplete == DisplayFirst /\ Spec => []NothingLeftAtFinalize
<1> SUFFICES ASSUME DisplayFirst PROVE Spec => []NothingLeftAtFinalize
  OBVIOUS
<1>1. TypeInv /\ CoherentInv => NothingLeftAtFinalize
  <2> SUFFICES ASSUME TypeInv, CoherentInv, pc[0] \in {"finalize", "exited"},
                      NEW r \in Ranks
               PROVE  images[r] = <<>> /\ shown[r].angle = LastAngle
    BY DisplayRankIsRank DEF NothingLeftAtFinalize
  <2>1. angle[0] = LastAngle + 1 /\ images[r] \in Seq(Images)
    BY DEF CoherentInv, TypeInv, TypeOK
  <2>2. Len(images[r]) = 0
    <3> SUFFICES ASSUME Len(images[r]) # 0 PROVE FALSE
      OBVIOUS
    <3>1. images[r][1].angle \in 0..LastAngle
      <4>1. images[r][1] \in Images
        BY <2>1
      <4> QED
        BY <4>1 DEF Images
    <3>2. images[r][1] = NthImage(r, angle[0] + 1 - 1)
      BY <2>1 DEF CoherentInv
    <3> QED
      BY <2>1, <3>1, <3>2, RenderServerAssumption DEF NthImage
  <2> QED
    BY <2>1, <2>2, RenderServerAssumption DEF CoherentInv, NthImage
<1>2. TypeInv /\ CoherentInv /\ [Next]_vars => CoherentInv'
  BY CoherentStep
<1> QED
  BY <1>1, <1>2, InitTypeInv, TypeStep, InitCoherentInv, PTL DEF Spec

-------------------------------------------------------------------------------
(* How far ranks get from each other.                                        *)

\* Also of a rank that died: its images reach up to its angle, or one further
\* if it died between sending an image and counting the frame.
ReachInv ==
  \A r \in Ranks : angle[0] + Len(images[r]) \in {angle[r], angle[r] + 1}

\* Initially no rank has an image under way.
LEMMA InitReachInv == Init => ReachInv
  BY RenderServerAssumption DEF Init, ReachInv, Ranks

\* A living rank is where CoherentInv says; one that dies stays where it was.
LEMMA ReachStep ==
  DisplayFirst /\ TypeInv /\ CoherentInv /\ ReachInv /\ CoherentInv' /\ [Next]_vars
    => ReachInv'
<1> SUFFICES ASSUME DisplayFirst, TypeInv, CoherentInv, ReachInv, CoherentInv', [Next]_vars,
                    NEW q \in Ranks
             PROVE  angle'[0] + Len(images'[q]) \in {angle'[q], angle'[q] + 1}
  BY DEF ReachInv
<1>1. CASE pc'[q] # "dead"
  BY <1>1 DEF CoherentInv, Sent
<1>2. CASE pc'[q] = "dead"
  <2>1. CASE UNCHANGED <<angle, images>>
    BY <2>1 DEF ReachInv
  <2>2. ASSUME NEW r \in Ranks, r # DisplayRank, SendImage(r) \/ FinishFrame(r) \/ SkipFrame(r)
        PROVE  angle'[0] = angle[0] /\ angle'[q] = angle[q] /\ images'[q] = images[q]
    BY <1>2, <2>2, DisplayRankIsRank
    DEF TypeInv, TypeOK, SendImage, FinishFrame, SkipFrame, SwapBuffers, Goto
  <2>3. ASSUME SendImage(DisplayRank)
        PROVE  angle' = angle /\ images'[q] = images[q]
    BY <1>2, <2>3, DisplayRankIsRank DEF TypeInv, TypeOK, SendImage, Goto
  <2>4. ASSUME NEW r \in Ranks, ComposeFrame(r)
        PROVE  angle'[0] + Len(images'[q]) \in {angle'[q], angle'[q] + 1}
    <3>1. /\ angle \in [Ranks -> Nat] /\ q # 0 /\ r = 0 /\ images[q] \in Seq(Images)
          /\ images'[q] = Tail(images[q]) /\ images[q] # <<>>
          /\ angle' = [angle EXCEPT ![0] = @ + 1]
      BY <1>2, <2>4, DisplayRankIsRank
      DEF TypeInv, TypeOK, ComposeFrame, SwapBuffers, Goto
    <3>2. Len(images'[q]) = Len(images[q]) - 1 /\ Len(images[q]) \in Nat
      BY <3>1
    <3>3. /\ angle'[0] = angle[0] + 1 /\ angle'[q] = angle[q]
          /\ angle[0] \in Nat /\ angle[q] \in Nat
      BY <3>1, DisplayRankIsRank
    <3>4. \/ angle[0] + Len(images[q]) = angle[q]
          \/ angle[0] + Len(images[q]) = angle[q] + 1
      BY DEF ReachInv
    <3>5. angle'[0] + Len(images'[q]) = angle[0] + Len(images[q])
      BY <3>2, <3>3
    <3> QED
      BY <3>3, <3>4, <3>5
  <2>5. \/ UNCHANGED <<angle, images>>
        \/ \E r \in Ranks : SendImage(r) \/ FinishFrame(r) \/ SkipFrame(r) \/ ComposeFrame(r)
    BY DEF Next, Startup, DoFrame, CheckArguments, Load, LoadFails, OpenWindow,
           EnterMainLoop, InitIceT, Reshape, StartFrame, EndAnimation, Exit, CloseWindow,
           Abort, Done, vars, animation, setup, display
  <2>6. ~FinishFrame(DisplayRank) /\ \A r \in Ranks : ~SkipFrame(r)
    BY DEF FinishFrame, SkipFrame
  <2> QED
    BY <2>1, <2>2, <2>3, <2>4, <2>5, <2>6 DEF ReachInv
<1> QED
  BY <1>1, <1>2

\* No rank's animation gets further ahead of another's than MaxAhead + 1
\* frames (360), for any number of ranks and any of them dying.
THEOREM RanksStayTogether == DisplayFirst /\ Spec => []SkewBounded
<1> SUFFICES ASSUME DisplayFirst PROVE Spec => []SkewBounded
  OBVIOUS
<1>1. TypeInv /\ ReachInv => SkewBounded
  <2> SUFFICES ASSUME TypeInv, ReachInv, NEW r \in Ranks, NEW q \in Ranks
               PROVE  angle[r] <= angle[q] + MaxAhead + 1
    BY DEF SkewBounded
  <2>1. /\ angle[0] \in Nat /\ angle[r] \in Nat /\ angle[q] \in Nat
        /\ Len(images[r]) \in Nat /\ Len(images[q]) \in Nat
        /\ Len(images[r]) <= MaxAhead
    BY DisplayRankIsRank, LenProperties DEF TypeInv, TypeOK
  <2>2. /\ angle[0] + Len(images[r]) \in {angle[r], angle[r] + 1}
        /\ angle[0] + Len(images[q]) \in {angle[q], angle[q] + 1}
    BY DEF ReachInv
  <2>3. angle[r] <= angle[0] + MaxAhead
    BY <2>1, <2>2, RenderServerAssumption
  <2>4. angle[0] <= angle[q] + 1
    BY <2>1, <2>2
  <2> QED
    BY <2>1, <2>3, <2>4, RenderServerAssumption
<1>2. TypeInv /\ CoherentInv /\ [Next]_vars => CoherentInv'
  BY CoherentStep
<1>3. TypeInv /\ CoherentInv /\ ReachInv /\ CoherentInv' /\ [Next]_vars => ReachInv'
  BY ReachStep
<1> QED
  BY <1>1, <1>2, <1>3, InitTypeInv, TypeStep, InitCoherentInv, InitReachInv, PTL DEF Spec

-------------------------------------------------------------------------------
(* The tiles.                                                                *)

\* Every step keeps the tile as large as the window, or owes a redisplay.
LEMMA TileStep == TypeInv /\ TileFollowsWindow /\ [Next]_vars => TileFollowsWindow'
<1> SUFFICES ASSUME TypeInv, TileFollowsWindow, [Next]_vars PROVE TileFollowsWindow'
  OBVIOUS
<1>1. ASSUME UNCHANGED display PROVE TileFollowsWindow'
  BY <1>1 DEF display, TileFollowsWindow
<1>2. ASSUME NEW r \in Ranks, InitIceT(r) PROVE TileFollowsWindow'
  BY <1>2 DEF InitIceT, TypeInv, TypeOK, TileFollowsWindow
<1>3. ASSUME NEW r \in Ranks, Reshape(r) PROVE TileFollowsWindow'
  BY <1>3 DEF Reshape, TypeInv, TypeOK, TileFollowsWindow
<1>4. ASSUME NEW r \in Ranks, OpenWindow(r) PROVE TileFollowsWindow'
  BY <1>4 DEF OpenWindow, TypeInv, TypeOK, TileFollowsWindow
<1>5. ASSUME NEW r \in Ranks, DoFrame(r) PROVE UNCHANGED display
  BY <1>5 DEF DoFrame, StartFrame, SkipFrame, SendImage, FinishFrame, ComposeFrame,
     EndAnimation, Exit
<1>6. ASSUME NEW r \in Ranks, Startup(r), ~OpenWindow(r) PROVE UNCHANGED display
  BY <1>6 DEF Startup, CheckArguments, Load, LoadFails, EnterMainLoop
<1>7. ASSUME NEW r \in Ranks, CloseWindow(r) PROVE UNCHANGED display
  BY <1>7 DEF CloseWindow
<1>8. ASSUME Abort \/ UNCHANGED vars PROVE UNCHANGED display
  BY <1>8 DEF Abort, vars, display
<1> QED
  BY <1>1, <1>2, <1>3, <1>4, <1>5, <1>6, <1>7, <1>8 DEF Next, Done

\* However often and whenever windows are resized, IceT's tile is as large as
\* the window as soon as GLUT owes no display callback.
THEOREM TilesFollow == Spec => []TileFollowsWindow
<1>1. Init => TileFollowsWindow
  BY DEF Init, TileFollowsWindow
<1> QED
  BY <1>1, InitTypeInv, TypeStep, TileStep, PTL DEF Spec

-------------------------------------------------------------------------------
(* The slices of module Slices, for every number of particles and of ranks. *)

\* Multiplying by a natural number keeps the order.
LEMMA ProductMonotone ==
  ASSUME NEW a \in Nat, NEW b \in Nat, NEW c \in Nat, b <= c
  PROVE  a * b \in Nat /\ a * b <= a * c
<1>1. PICK d \in Nat : c = b + d
  <2>1. c - b \in Nat /\ c = b + (c - b)
    OBVIOUS
  <2> QED
    BY <2>1
<1>2. a * c = a * b + a * d
  BY <1>1
<1>3. a * d \in Nat /\ a * b \in Nat
  OBVIOUS
<1> QED
  BY <1>2, <1>3

\* The n chunks fill the frame up to a remainder smaller than n.
LEMMA ChunkBounds ==
  ASSUME NEW size \in Nat, NEW n \in Nat \ {0}
  PROVE  /\ Chunk(size, n) \in Nat
         /\ Chunk(size, n) * n <= size
         /\ size < Chunk(size, n) * n + n
  BY DEF Chunk

\* No rank reads beyond the end of its frame (Draw, 351-352); nor can the
\* unsigned products of the loop bounds exceed the size of the frame, so they
\* do not wrap around.
THEOREM SliceInBounds ==
  ASSUME NEW size \in Nat, NEW n \in Nat \ {0}, NEW r \in 0..(n - 1)
  PROVE  /\ Slice(size, n, r) \subseteq 0..(size - 1)
         /\ Chunk(size, n) * (r + 1) \in 0..size
<1>1. Chunk(size, n) \in Nat /\ Chunk(size, n) * n <= size
  BY ChunkBounds
<1>2. Chunk(size, n) * (r + 1) \in Nat /\ Chunk(size, n) * (r + 1) <= Chunk(size, n) * n
  BY <1>1, ProductMonotone
<1>3. Chunk(size, n) * r \in Nat
  BY <1>1, ProductMonotone
<1>4. Chunk(size, n) * n \in Nat
  BY <1>1, ProductMonotone
<1>5. Chunk(size, n) * (r + 1) <= size
  BY <1>1, <1>2, <1>4
<1> QED
  BY <1>2, <1>3, <1>5 DEF Slice

\* No particle of the frame belongs to two ranks.
THEOREM SlicesDisjoint ==
  ASSUME NEW size \in Nat, NEW n \in Nat \ {0},
         NEW r \in 0..(n - 1), NEW q \in 0..(n - 1), r # q
  PROVE  Slice(size, n, r) \cap Slice(size, n, q) = {}
<1>1. ASSUME NEW a \in 0..(n - 1), NEW b \in 0..(n - 1), a < b
      PROVE  Slice(size, n, a) \cap Slice(size, n, b) = {}
  <2>1. Chunk(size, n) \in Nat
    BY ChunkBounds
  <2>2. a \in Nat /\ b \in Nat /\ a + 1 \in Nat /\ b + 1 \in Nat /\ a + 1 <= b
    BY <1>1
  <2>3. /\ Chunk(size, n) * (a + 1) <= Chunk(size, n) * b
        /\ Chunk(size, n) * (a + 1) \in Nat
    BY <2>1, <2>2, ProductMonotone
  <2>4. Chunk(size, n) * b \in Nat
    BY <2>1, <2>2, ProductMonotone
  <2> QED
    BY <2>3, <2>4 DEF Slice
<1>2. CASE r < q
  BY <1>1, <1>2
<1>3. CASE q < r
  BY <1>1, <1>3
<1> QED
  BY <1>2, <1>3

\* Whatever no rank draws lies in the remainder of the division: the last
\* particles of the frame, fewer than there are ranks.
THEOREM RestIsRemainder ==
  ASSUME NEW size \in Nat, NEW n \in Nat \ {0}
  PROVE  /\ Rest(size, n) \subseteq (Chunk(size, n) * n)..(size - 1)
         /\ size - Chunk(size, n) * n \in 0..(n - 1)
<1> DEFINE c == Chunk(size, n)
<1>1. c \in Nat /\ c * n \in Nat /\ c * n <= size /\ size < c * n + n
  <2>1. c \in Nat /\ c * n <= size /\ size < c * n + n
    BY ChunkBounds
  <2> HIDE DEF c
  <2>2. c * n \in Nat
    BY <2>1, ProductMonotone
  <2> QED
    BY <2>1, <2>2
<1>2. ASSUME NEW i \in 0..(size - 1), i < c * n
      PROVE  \E r \in 0..(n - 1) : i \in Slice(size, n, r)
  <2>1. c # 0
    BY <1>1, <1>2
  <2> DEFINE r == i \div c
  <2>2. r \in Nat /\ c * r <= i /\ i < c * r + c
    BY <1>1, <2>1
  <2>3. c * (r + 1) = c * r + c
    BY <1>1, <2>2
  <2>4. r < n
    <3> SUFFICES ASSUME n <= r PROVE FALSE
      BY <2>2
    <3>1. c * n <= c * r
      BY <1>1, <2>2, ProductMonotone
    <3>2. c * r \in Nat
      BY <1>1, <2>2, ProductMonotone
    <3> QED
      BY <1>1, <1>2, <2>2, <3>1, <3>2
  <2>5. i \in Slice(size, n, r)
    <3>1. c * r \in Nat
      BY <1>1, <2>2, ProductMonotone
    <3> QED
      BY <1>1, <2>2, <2>3, <3>1 DEF Slice
  <2> QED
    BY <2>2, <2>4, <2>5
<1>3. ASSUME NEW i \in Rest(size, n) PROVE i \in (c * n)..(size - 1)
  <2>1. i \in 0..(size - 1) /\ \A r \in 0..(n - 1) : i \notin Slice(size, n, r)
    BY DEF Rest
  <2>2. ~(i < c * n)
    BY <1>2, <2>1
  <2> QED
    BY <1>1, <2>1, <2>2
<1> QED
  BY <1>1, <1>3

-------------------------------------------------------------------------------
(* The order of the columns.                                                 *)

\* The smaller element has fewer before it, and each has fewer than there are.
LEMMA BeforeGrows ==
  ASSUME NEW S, S \subseteq Int, IsFiniteSet(S)
  PROVE  /\ \A c \in S : Before(S, c) \in 0..(Cardinality(S) - 1)
         /\ \A c, d \in S : c < d => Before(S, c) # Before(S, d)
<1>0. Cardinality(S) \in Nat
  BY FS_CardinalityType
<1>1. ASSUME NEW c \in S PROVE Before(S, c) \in 0..(Cardinality(S) - 1)
  <2> DEFINE below == {d \in S : d < c}
  <2>1. below \in SUBSET S /\ c \notin below
    OBVIOUS
  <2>2. IsFiniteSet(below) /\ Cardinality(below) \in Nat
    BY <2>1, FS_Subset, FS_CardinalityType
  <2>3. Cardinality(below) <= Cardinality(S) /\ Cardinality(below) # Cardinality(S)
    <3> HIDE DEF below
    <3> QED
      BY <2>1, FS_Subset
  <2> QED
    BY <1>0, <2>2, <2>3 DEF Before
<1>2. ASSUME NEW c \in S, NEW d \in S, c < d PROVE Before(S, c) # Before(S, d)
  <2> DEFINE low == {e \in S : e < c}
             high == {e \in S : e < d}
  <2>1. low \in SUBSET high
    <3>1. c \in Int /\ d \in Int /\ \A e \in S : e \in Int
      OBVIOUS
    <3>2. \A e \in S : e < c => e < d
      BY <1>2, <3>1
    <3> QED
      BY <3>2
  <2>2. c \in high /\ c \notin low
    BY <1>2
  <2>3. IsFiniteSet(high)
    BY FS_Subset
  <2>4. Cardinality(low) # Cardinality(high)
    <3> HIDE DEF low, high
    <3> QED
      BY <2>1, <2>2, <2>3, FS_Subset
  <2> QED
    BY <2>4 DEF Before
<1> QED
  BY <1>1, <1>2

\* InOrder lists a finite set of numbers without repetition and completely: as
\* no two elements have as many before them, each place has its element.
LEMMA InOrderLists ==
  ASSUME NEW S, S \subseteq Int, IsFiniteSet(S)
  PROVE  /\ Cardinality(S) \in Nat
         /\ InOrder(S) \in Bijection(1..Cardinality(S), S)
<1> DEFINE n == Cardinality(S)
           place == [c \in S |-> Before(S, c) + 1]
<1>1. n \in Nat
  BY FS_CardinalityType
<1>2. place \in [S -> 1..n]
  <2>1. ASSUME NEW c \in S PROVE Before(S, c) + 1 \in 1..n
    <3>1. Before(S, c) \in 0..(n - 1)
      BY BeforeGrows
    <3> QED
      BY <1>1, <3>1
  <2> QED
    BY <2>1
<1>3. \A c, d \in S : place[c] = place[d] => c = d
  <2> SUFFICES ASSUME NEW c \in S, NEW d \in S, place[c] = place[d], c # d
               PROVE  FALSE
    OBVIOUS
  <2>1. Before(S, c) \in 0..(n - 1) /\ Before(S, d) \in 0..(n - 1)
    BY BeforeGrows
  <2>2. Before(S, c) = Before(S, d)
    BY <1>1, <2>1
  <2>3. c < d \/ d < c
    OBVIOUS
  <2> QED
    BY <2>2, <2>3, BeforeGrows
<1>4. \A i \in 1..n : \E c \in S : place[c] = i
  <2>1. IsFiniteSet(1..n) /\ Cardinality(1..n) = n
    BY <1>1, FS_Interval
  <2>2. place \in Injection(S, 1..n)
    <3> HIDE DEF place
    <3> QED
      BY <1>2, <1>3, Fun_IsInj
  <2>3. place \in Surjection(S, 1..n)
    BY <2>1, <2>2, FS_Injection
  <2> HIDE DEF place
  <2> QED
    BY <2>3, Fun_SurjectionProperties
<1>5. ASSUME NEW i \in 1..n PROVE InOrder(S)[i] \in S /\ place[InOrder(S)[i]] = i
  <2>1. \E c \in S : Before(S, c) = i - 1
    <3>1. PICK c \in S : place[c] = i
      BY <1>4
    <3>2. Before(S, c) \in 0..(n - 1) /\ Before(S, c) + 1 = i
      BY <3>1, BeforeGrows
    <3> QED
      BY <1>1, <3>2
  <2>2. InOrder(S)[i] = CHOOSE c \in S : Before(S, c) = i - 1
    BY DEF InOrder
  <2>3. InOrder(S)[i] \in S /\ Before(S, InOrder(S)[i]) = i - 1
    BY <2>1, <2>2
  <2> QED
    BY <1>1, <2>3
<1>6. InOrder(S) = [i \in 1..n |-> InOrder(S)[i]]
  BY DEF InOrder
<1> HIDE DEF place, n
<1>7. InOrder(S) \in [1..n -> S]
  BY <1>5, <1>6
<1>8. \A i, j \in 1..n : InOrder(S)[i] = InOrder(S)[j] => i = j
  BY <1>5
<1>9. \A c \in S : \E i \in 1..n : InOrder(S)[i] = c
  <2> TAKE c \in S
  <2>1. place[c] \in 1..n
    BY <1>2
  <2>2. InOrder(S)[place[c]] \in S /\ place[InOrder(S)[place[c]]] = place[c]
    BY <1>5, <2>1
  <2> QED
    BY <1>3, <2>1, <2>2
<1> QED
  BY <1>1, <1>7, <1>8, <1>9, Fun_IsBij DEF n

-------------------------------------------------------------------------------
(* The job *)

\* What is under way or on display was drawn by ranks that had their frame;
\* a rank that is still to load has drawn nothing.
FrameInv ==
  /\ images = [r \in Ranks |-> images[r]]
  /\ \A r \in Ranks : pc[r] \in {"start", "load"} => particles[r] = None
  /\ \A r \in Ranks : pc[r] \notin {"start", "load", "dead"} => particles[r] # None
  /\ \A r \in Ranks : images[r] # <<>> => particles[r] \in Frames

HInv == HTypeOK /\ FrameInv /\ NoPictureWithoutFrames

\* The frame a rank makes is one of the frames there are.
LEMMA FetchedIsFrame == ASSUME NEW columns PROVE FrameOf(columns) \in Frames
<1>1. FrameOf(columns) = FrameOf(columns \cap Coordinates)
  <2>1. (columns \cap Coordinates) \cap Coordinates = columns \cap Coordinates
    OBVIOUS
  <2> QED
    BY <2>1 DEF FrameOf
<1> QED
  BY <1>1 DEF Frames

\* The invariant holds when the job starts.
LEMMA InitHInv == HInit => HInv
  BY HBaseRendererAssumption
     DEF HInit, Init, HInv, HTypeOK, FrameInv, NoPictureWithoutFrames, Places

\* Every step of a rank, GLUT, the user and the table's writers preserves the invariant.
LEMMA HInvStep == HInv /\ [HNext]_hvars => HInv'
<1> SUFFICES ASSUME HInv, [HNext]_hvars PROVE HInv'
  OBVIOUS
<1> USE HBaseRendererAssumption
        DEF HInv, HTypeOK, FrameInv, NoPictureWithoutFrames, Places, Goto, Enter,
            setup, display, animation
<1>1. ASSUME NEW r \in Ranks, Start(r) PROVE HInv'
  BY <1>1 DEF Start
<1>2. ASSUME NEW r \in Ranks, Fetch(r) PROVE HInv'
  <2>1. FrameOf(row) \in Frames
    BY FetchedIsFrame
  <2> QED
    BY <1>2, <2>1 DEF Fetch
<1>3. ASSUME NEW r \in Ranks, FetchDies(r) PROVE HInv'
  BY <1>3 DEF FetchDies
<1>4. ASSUME NEW r \in Ranks, FetchThrows(r) PROVE HInv'
  BY <1>4 DEF FetchThrows
<1>5. ASSUME NEW r \in Ranks, MakeWindow(r) PROVE HInv'
  BY <1>5 DEF MakeWindow
<1>6. ASSUME NEW r \in Ranks, DrawSlice(r) PROVE HInv'
  <2>1. /\ pc[r] = "draw" /\ pc' = [pc EXCEPT ![r] = "compose"]
        /\ \A q \in Ranks : q # r => images'[q] = images[q]
        /\ images' = [q \in Ranks |-> images'[q]]
        /\ UNCHANGED <<particles, shown, row, writes>>
    BY <1>6 DEF DrawSlice, SendImage
  <2>2. particles[r] \in Frames
    BY <1>6, <2>1 DEF DrawSlice
  <2> QED
    BY <2>1, <2>2
<1>7. ASSUME NEW r \in Ranks, DrawCrashes(r) PROVE HInv'
  BY <1>7 DEF DrawCrashes
<1>8. ASSUME NEW r \in Ranks, LoopStep(r), ~ComposeFrame(r) PROVE HInv'
  <2>1. UNCHANGED <<particles, images, shown, row, writes>>
    BY <1>8 DEF LoopStep, EnterMainLoop, StartFrame, SkipFrame, FinishFrame, EndAnimation,
       Exit, SwapBuffers
  <2>2. \E to \in {"loop", "draw", "finalize", "exited"} : Goto(r, to)
    BY <1>8 DEF LoopStep, EnterMainLoop, StartFrame, SkipFrame, FinishFrame, EndAnimation,
       Exit, SwapBuffers
  <2>3. pc[r] \in {"window", "loop", "compose", "finalize"}
    BY <1>8 DEF LoopStep, EnterMainLoop, StartFrame, SkipFrame, FinishFrame, EndAnimation,
       Exit, InAnimation
  <2> QED
    BY <2>1, <2>2, <2>3
<1>9. ASSUME NEW r \in Ranks, LoopStep(r), ComposeFrame(r) PROVE HInv'
  <2>1. \A q \in Ranks : particles[q] \in Frames
    BY <1>9 DEF ComposeFrame
  <2>2. /\ pc[r] = "compose" /\ Goto(r, "loop") /\ UNCHANGED <<particles, row, writes>>
        /\ images' = [q \in Ranks |-> images'[q]]
    BY <1>9 DEF ComposeFrame, LoopStep, SwapBuffers
  <2> QED
    BY <2>1, <2>2
<1>10. ASSUME NEW r \in Ranks, WindowStep(r) PROVE HInv'
  BY <1>10 DEF WindowStep, InitIceT, Reshape, CloseWindow
<1>11. CASE AbortStep
  BY <1>11 DEF AbortStep, Abort
<1>12. CASE WriteRow
  <2>1. UNCHANGED <<pc, particles, images, shown>>
    BY <1>12 DEF WriteRow, vars
  <2>2. row' \in SUBSET Columns /\ writes' \in 0..MaxWrites
    BY <1>12 DEF WriteRow
  <2> QED
    BY <2>1, <2>2
<1>13. CASE UNCHANGED hvars
  BY <1>13 DEF hvars, vars
<1> QED
  BY <1>1, <1>2, <1>3, <1>4, <1>5, <1>6, <1>7, <1>8, <1>9, <1>10, <1>11, <1>12, <1>13
     DEF HNext, FetchStep, DrawStep, Done, hvars

\* The invariant holds in every reachable state.
LEMMA HInvHolds == HSpec => []HInv
  BY InitHInv, HInvStep, PTL DEF HSpec

\* Every variable keeps its type.
THEOREM HTypeCorrect == HSpec => []HTypeOK
<1>1. HInv => HTypeOK
  BY DEF HInv
<1> QED
  BY <1>1, HInvHolds, PTL

\* A rank whose query failed (ice_tHbase.cpp, 142-155) is part of no picture,
\* however the others are ahead of it.
THEOREM PicturesNeedFrames == HSpec => []NoPictureWithoutFrames
<1>1. HInv => NoPictureWithoutFrames
  BY DEF HInv
<1> QED
  BY <1>1, HInvHolds, PTL

-------------------------------------------------------------------------------
(* The picture.                                                              *)

\* What is drawn of a frame: no particle by two ranks, and all but fewer
\* particles than there are ranks.
LEMMA FrameIsDivided ==
  ASSUME NEW f \in Frames
  PROVE  /\ \A r, q \in Ranks : r # q => Drawn(f, r) \cap Drawn(f, q) = {}
         /\ Cardinality(ToSet(f) \ UNION {Drawn(f, r) : r \in Ranks}) < NumProc
<1>1. PICK S : S \subseteq Coordinates /\ f = InOrder(S)
  BY DEF Frames, FrameOf
<1> DEFINE n == Cardinality(S)
<1>2. n \in Nat /\ f \in Bijection(1..n, S)
  <2>1. S \subseteq Int /\ IsFiniteSet(S)
    BY <1>1, FS_Subset, HBaseRendererAssumption
  <2> QED
    BY <1>1, <2>1, InOrderLists
<1> HIDE DEF n
<1>3. /\ f \in [1..n -> S]
      /\ \A i, j \in 1..n : f[i] = f[j] => i = j
  BY <1>2, Fun_BijectionProperties
<1>4. f \in Seq(S) /\ Len(f) = n /\ ToSet(f) = {f[i] : i \in 1..n}
  BY <1>2, <1>3 DEF ToSet
<1>5. NumProc \in Nat \ {0}
  BY RenderServerAssumption
<1>6. ASSUME NEW r \in Ranks
      PROVE  \A i \in Slice(n, NumProc, r) : i \in 0..(n - 1) /\ i + 1 \in 1..n
  <2>1. Slice(n, NumProc, r) \subseteq 0..(n - 1)
    BY <1>2, <1>5, SliceInBounds DEF Ranks
  <2> QED
    BY <1>2, <2>1
<1>7. ASSUME NEW r \in Ranks, NEW q \in Ranks, r # q
      PROVE  Drawn(f, r) \cap Drawn(f, q) = {}
  <2> SUFFICES ASSUME NEW i \in Slice(n, NumProc, r), NEW j \in Slice(n, NumProc, q),
                      f[i + 1] = f[j + 1]
               PROVE  FALSE
    BY <1>4 DEF Drawn
  <2>1. i = j
    BY <1>3, <1>6
  <2>2. Slice(n, NumProc, r) \cap Slice(n, NumProc, q) = {}
    BY <1>2, <1>5, <1>7, SlicesDisjoint DEF Ranks
  <2> QED
    BY <2>1, <2>2
<1>8. Cardinality(ToSet(f) \ UNION {Drawn(f, r) : r \in Ranks}) < NumProc
  <2> DEFINE left == ToSet(f) \ UNION {Drawn(f, r) : r \in Ranks}
             m == Chunk(n, NumProc) * NumProc
             last == m..(n - 1)
             g == [i \in last |-> f[i + 1]]
             T == {f[i + 1] : i \in last}
  <2>1. m \in Nat /\ n - m \in 0..(NumProc - 1) /\ Rest(n, NumProc) \subseteq last
    <3>1. Chunk(n, NumProc) \in Nat
      BY <1>2, <1>5, ChunkBounds
    <3>2. m \in Nat
      BY <1>5, <3>1, ProductMonotone
    <3> QED
      BY <1>2, <1>5, <3>2, RestIsRemainder
  <2> HIDE DEF m
  <2>2. left \subseteq T
    <3> SUFFICES ASSUME NEW c \in left PROVE c \in T
      OBVIOUS
    <3>1. PICK k \in 1..n : c = f[k]
      BY <1>4
    <3>2. k - 1 \in 0..(n - 1) /\ (k - 1) + 1 = k
      BY <1>2
    <3>3. \A r \in 0..(NumProc - 1) : k - 1 \notin Slice(n, NumProc, r)
      <4> SUFFICES ASSUME NEW r \in Ranks, k - 1 \in Slice(n, NumProc, r) PROVE FALSE
        BY DEF Ranks
      <4>1. c \in Drawn(f, r)
        BY <1>4, <3>1, <3>2 DEF Drawn
      <4> QED
        BY <4>1
    <3>4. k - 1 \in last
      BY <2>1, <3>2, <3>3 DEF Rest
    <3> QED
      BY <3>1, <3>2, <3>4
  <2>3. IsFiniteSet(last) /\ Cardinality(last) < NumProc
    <3>1. m \in Int /\ n - 1 \in Int
      BY <1>2, <2>1
    <3>2. /\ IsFiniteSet(last)
          /\ Cardinality(last) = IF m > n - 1 THEN 0 ELSE (n - 1) - m + 1
      BY <3>1, FS_Interval
    <3> QED
      BY <1>2, <1>5, <2>1, <3>2
  <2>4. IsFiniteSet(T) /\ Cardinality(T) <= Cardinality(last)
    <3>1. g \in [last -> T] /\ \A t \in T : \E i \in last : g[i] = t
      OBVIOUS
    <3> HIDE DEF g, T, last
    <3>2. g \in Surjection(last, T)
      BY <3>1, Fun_IsSurj
    <3> QED
      BY <2>3, <3>2, FS_Surjection
  <2>5. IsFiniteSet(left) /\ Cardinality(left) <= Cardinality(T)
    <3> HIDE DEF left, T
    <3> QED
      BY <2>2, <2>4, FS_Subset
  <2>6. /\ Cardinality(last) \in Nat /\ Cardinality(T) \in Nat
        /\ Cardinality(left) \in Nat
    BY <2>3, <2>4, <2>5, FS_CardinalityType
  <2> HIDE DEF last, T, left
  <2>7. Cardinality(left) < NumProc
    BY <1>5, <2>3, <2>4, <2>5, <2>6
  <2> QED
    BY <2>7 DEF left
<1> QED
  BY <1>7, <1>8

\* Images, under way or on display, are of frames.
Drawings == [angle : Nat, particles : Frames]

DrawnInv ==
  /\ angle \in [Ranks -> Nat]
  /\ images \in [Ranks -> Seq(Drawings)]
  /\ shown # None => shown \in [Ranks -> Drawings]

\* Only a rank that has its frame sends an image, and composing takes each
\* rank's oldest.
LEMMA DrawnStep == HInv /\ DrawnInv /\ [HNext]_hvars => DrawnInv'
<1> SUFFICES ASSUME HInv, DrawnInv, [HNext]_hvars PROVE DrawnInv'
  OBVIOUS
<1> USE DEF DrawnInv, setup, display, animation
<1>1. ASSUME NEW r \in Ranks, FetchStep(r) \/ DrawCrashes(r) \/ WindowStep(r)
      PROVE  DrawnInv'
  <2>1. UNCHANGED animation
    BY <1>1 DEF FetchStep, Start, Fetch, FetchDies, FetchThrows, MakeWindow,
       DrawCrashes, WindowStep, InitIceT, Reshape, CloseWindow
  <2> QED
    BY <2>1
<1>2. ASSUME NEW r \in Ranks, DrawSlice(r) PROVE DrawnInv'
  <2>1. /\ pc[r] = "draw" /\ particles[r] # Null
        /\ images' = [images EXCEPT ![r] = Append(@, Image(r))]
        /\ UNCHANGED <<angle, shown>>
    BY <1>2 DEF DrawSlice, SendImage
  <2>2. particles[r] \in Frames
    BY <2>1 DEF HInv, HTypeOK, FrameInv
  <2>3. Image(r) \in Drawings
    BY <2>2 DEF Image, Drawings
  <2> QED
    BY <2>1, <2>3
<1>3. ASSUME NEW r \in Ranks, LoopStep(r) PROVE DrawnInv'
  <2>1. CASE EnterMainLoop(r) \/ StartFrame(r) \/ EndAnimation(r) \/ Exit(r)
    <3>1. UNCHANGED animation
      BY <2>1 DEF EnterMainLoop, StartFrame, EndAnimation, Exit
    <3> QED
      BY <3>1
  <2>2. CASE SkipFrame(r) \/ FinishFrame(r)
    <3>1. angle' = [angle EXCEPT ![r] = @ + 1] /\ UNCHANGED <<images, shown>>
      BY <2>2 DEF SkipFrame, FinishFrame, SwapBuffers
    <3> QED
      BY <3>1
  <2>3. CASE ComposeFrame(r)
    <3>1. /\ angle' = [angle EXCEPT ![r] = @ + 1]
          /\ shown' = [q \in Ranks |-> Head(images[q])]
          /\ images' = [q \in Ranks |-> Tail(images[q])]
          /\ \A q \in Ranks : images[q] # <<>>
      BY <2>3 DEF ComposeFrame, SwapBuffers
    <3>2. \A q \in Ranks : /\ Head(images[q]) \in Drawings
                           /\ Tail(images[q]) \in Seq(Drawings)
      BY <3>1, HeadTailProperties
    <3> QED
      BY <3>1, <3>2
  <2> QED
    BY <1>3, <2>1, <2>2, <2>3 DEF LoopStep
<1>4. CASE AbortStep
  BY <1>4 DEF AbortStep, Abort
<1>5. CASE WriteRow
  BY <1>5 DEF WriteRow, vars
<1>6. CASE UNCHANGED hvars
  BY <1>6 DEF hvars, vars
<1> QED
  BY <1>1, <1>2, <1>3, <1>4, <1>5, <1>6 DEF HNext, DrawStep, Done, hvars

\* A picture of equal frames shows no particle twice, and fewer particles than
\* there are ranks are missing from it (Draw, 349-351).
THEOREM ParticlesDrawnOnce == HSpec => []EachParticleOnce
<1>1. HInit => DrawnInv
  BY DEF HInit, Init, DrawnInv
<1>2. DrawnInv => EachParticleOnce
  <2> SUFFICES ASSUME DrawnInv, shown # None
               PROVE  LET f == shown[DisplayRank].particles
                      IN  (\A r \in Ranks : shown[r].particles = f) =>
                            /\ \A r, q \in Ranks :
                                 r # q => Drawn(f, r) \cap Drawn(f, q) = {}
                            /\ Cardinality(ToSet(f) \ UNION {Drawn(f, r) : r \in Ranks})
                                 < NumProc
    BY DEF EachParticleOnce
  <2>1. shown[DisplayRank].particles \in Frames
    BY DisplayRankIsRank DEF DrawnInv, Drawings
  <2> QED
    BY <2>1, FrameIsDivided
<1> QED
  BY <1>1, <1>2, DrawnStep, HInvHolds, PTL DEF HSpec
===============================================================================
