---------------------------- MODULE HttpCallProofs --------------------------
(***************************************************************************)
(* Proofs about HttpCall, for any set of concurrent calls and any timeouts. *)
(***************************************************************************)
EXTENDS HttpCall, TLAPS

\* Every exchange is at one of its places and every clock counts ticks.
THEOREM TypeCorrect == Spec => []TypeOK
<1>1. Init => TypeOK
  BY DEF Init, TypeOK, Places
<1>2. TypeOK /\ [Next]_vars => TypeOK'
  <2> SUFFICES ASSUME TypeOK, [Next]_vars
               PROVE  TypeOK'
    OBVIOUS
  <2> USE DEF TypeOK, Places, Ended, Goto
  <2>1. CASE UNCHANGED vars
    BY <2>1 DEF vars
  <2>2. ASSUME NEW c \in Calls, Begin(c)
        PROVE  TypeOK'
    BY <2>2 DEF Begin, Post, CannotPost
  <2>3. ASSUME NEW c \in Calls, LoopStep(c)
        PROVE  TypeOK'
    BY <2>3 DEF LoopStep, Connected, Progress, Receive, Refused, TimesOut
  <2>4. CASE Tick
    BY <2>4 DEF Tick
  <2>5. CASE DriverExits
    BY <2>5 DEF DriverExits
  <2> QED
    BY <2>1, <2>2, <2>3, <2>4, <2>5 DEF Next
<1> QED
  BY <1>1, <1>2, PTL DEF Spec

-----------------------------------------------------------------------------
LEMMA StatusBecomes ==
  ASSUME NEW c \in Calls, NEW state, Status(c)' = state,
         \A d \in Calls \ {c} : Status(d)' = Status(d)
  PROVE  Engine!Becomes(c, state)
  BY DEF Engine!Becomes

\* A step that moves one exchange changes the status of no other call.
LEMMA OthersStay ==
  ASSUME TypeOK, NEW c \in Calls, NEW place, Goto(c, place)
  PROVE  /\ exchange'[c] = place
         /\ \A d \in Calls \ {c} : Status(d)' = Status(d)
<1>1. \A d \in Calls \ {c} : exchange'[d] = exchange[d]
  BY DEF TypeOK, Goto
<1>2. exchange'[c] = place
  BY DEF TypeOK, Goto
<1> QED
  BY <1>1, <1>2 DEF Status, InFlight

LEMMA BeginIsEngineStep ==
  ASSUME TypeOK, NEW c \in Calls, Begin(c)
  PROVE  Engine!Step(c)
<1>1. Status(c) = "idle"
  BY DEF Begin, Post, CannotPost, Status, InFlight
<1>2. CASE Post(c)
  <2>1. /\ Status(c)' = "pending"
        /\ \A d \in Calls \ {c} : Status(d)' = Status(d)
    BY <1>2, OthersStay DEF Post, Status, InFlight
  <2> QED
    BY <1>1, <2>1, StatusBecomes DEF Engine!Step, Engine!Begin
<1>3. CASE CannotPost(c)
  <2>1. /\ Status(c)' = "failed"
        /\ \A d \in Calls \ {c} : Status(d)' = Status(d)
    BY <1>3, OthersStay DEF CannotPost, Status, InFlight
  <2> QED
    BY <1>1, <2>1, StatusBecomes DEF Engine!Step, Engine!FailAtOnce
<1> QED
  BY <1>2, <1>3 DEF Begin

LEMMA LoopStepIsEngineStep ==
  ASSUME TypeOK, NEW c \in Calls, LoopStep(c)
  PROVE  Engine!Step(c) \/ UNCHANGED [d \in Calls |-> Status(d)]
<1>1. Status(c) = "pending"
  BY DEF LoopStep, Connected, Progress, Receive, Refused, TimesOut, Status,
         InFlight
<1>2. CASE Connected(c)
  <2>1. /\ Status(c)' = "pending"
        /\ \A d \in Calls \ {c} : Status(d)' = Status(d)
    BY <1>2, OthersStay DEF Connected, Status, InFlight
  <2> QED
    BY <1>1, <2>1
<1>3. CASE Progress(c)
  BY <1>3 DEF Progress, Status, InFlight
<1>4. CASE Receive(c)
  <2>1. /\ Status(c)' = "answered"
        /\ \A d \in Calls \ {c} : Status(d)' = Status(d)
    BY <1>4, OthersStay DEF Receive, Status, InFlight
  <2> QED
    BY <1>1, <2>1, StatusBecomes DEF Engine!Step, Engine!Answer
<1>5. CASE Refused(c) \/ TimesOut(c)
  <2>1. Goto(c, "cliError")
    BY <1>5 DEF Refused, TimesOut
  <2>2. /\ Status(c)' = "failed"
        /\ \A d \in Calls \ {c} : Status(d)' = Status(d)
    BY <2>1, OthersStay DEF Status, InFlight
  <2> QED
    BY <1>1, <2>2, StatusBecomes DEF Engine!Step, Engine!Fail, Engine!InFlight
<1> QED
  BY <1>2, <1>3, <1>4, <1>5 DEF LoopStep

LEMMA ExitIsEngineExit == TypeOK /\ DriverExits => Engine!Exit
<1> SUFFICES ASSUME TypeOK, DriverExits
             PROVE  Engine!Exit
  OBVIOUS
<1>1. ASSUME NEW c \in Calls
      PROVE  Status(c)' = IF Engine!InFlight(c) THEN "dropped" ELSE Status(c)
  <2>1. Engine!InFlight(c) <=> InFlight(c)
    BY DEF Engine!InFlight, Status, InFlight
  <2>2. exchange'[c] = IF InFlight(c) THEN "dropped" ELSE exchange[c]
    BY DEF DriverExits
  <2> QED
    BY <2>1, <2>2 DEF Status, InFlight
<1> QED
  BY <1>1 DEF Engine!Exit

LEMMA NextIsEngineStep ==
    TypeOK /\ [Next]_vars => [Engine!Next]_[c \in Calls |-> Status(c)]
<1> SUFFICES ASSUME TypeOK, [Next]_vars
             PROVE  Engine!Next \/ UNCHANGED [c \in Calls |-> Status(c)]
  OBVIOUS
<1>1. CASE UNCHANGED vars \/ Tick
  BY <1>1 DEF vars, Tick, Status, InFlight
<1>2. ASSUME NEW c \in Calls, Begin(c) PROVE Engine!Next
  BY <1>2, BeginIsEngineStep DEF Engine!Next
<1>3. ASSUME NEW c \in Calls, LoopStep(c)
      PROVE  Engine!Next \/ UNCHANGED [d \in Calls |-> Status(d)]
  BY <1>3, LoopStepIsEngineStep DEF Engine!Next
<1>4. CASE DriverExits
  BY <1>4, ExitIsEngineExit DEF Engine!Next
<1> QED
  BY <1>1, <1>2, <1>3, <1>4 DEF Next

\* An exchange with the HTTP backend is made once and ends once, whatever the
\* backend, the clock and the exits of the driver do.
THEOREM HttpImplementsEngineCall == Spec => ImplementsEngineCall
<1>1. Init => Engine!Init
  BY DEF Init, Engine!Init, Status, InFlight
<1> QED
  BY <1>1, NextIsEngineStep, TypeCorrect, PTL
  DEF Spec, ImplementsEngineCall, Engine!Spec
=============================================================================
