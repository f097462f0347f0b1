--------------------------- MODULE FileRegister ---------------------------
(* What atomic replacement promises (file.h:204-207, docs/api.md:164): one  *)
(* file is a register.  A write takes effect at one instant or not at all,  *)
(* a read answers with the whole value the file had at one instant of the   *)
(* call, a crash of a process loses only its calls, and a power loss goes   *)
(* back to a value the file had.                                            *)
CONSTANTS Writers, Readers, Contents, Missing, Idle

VARIABLES value,    \* what the file holds (Missing: there is no file)
          stable,   \* what a power loss would leave
          writing,  \* writer -> the value of its call in progress, or Idle
          looking,  \* reader -> the value its call in progress saw, or Idle
          answer    \* reader -> what its last finished call answered, or Idle

vars == <<value, stable, writing, looking, answer>>

Init ==
    /\ value \in Contents \cup {Missing}
    /\ stable = value
    /\ writing = [w \in Writers |-> Idle]
    /\ looking = [r \in Readers |-> Idle]
    /\ answer = [r \in Readers |-> Idle]

Invoke(w, c) ==
    /\ writing[w] = Idle
    /\ writing' = [writing EXCEPT ![w] = c]
    /\ UNCHANGED <<value, stable, looking, answer>>

Commit(w) ==
    /\ writing[w] # Idle
    /\ value' = writing[w]
    /\ writing' = [writing EXCEPT ![w] = Idle]
    /\ UNCHANGED <<stable, looking, answer>>

Abort(w) ==
    /\ writing[w] # Idle
    /\ writing' = [writing EXCEPT ![w] = Idle]
    /\ UNCHANGED <<value, stable, looking, answer>>

Look(r) ==
    /\ looking[r] = Idle
    /\ value # Missing
    /\ looking' = [looking EXCEPT ![r] = value]
    /\ answer' = [answer EXCEPT ![r] = Idle]
    /\ UNCHANGED <<value, stable, writing>>

Answer(r) ==
    /\ looking[r] # Idle
    /\ answer' = [answer EXCEPT ![r] = looking[r]]
    /\ looking' = [looking EXCEPT ![r] = Idle]
    /\ UNCHANGED <<value, stable, writing>>

(* A read that fails, or finds no file, answers nothing.                    *)
NoAnswer(r) ==
    /\ looking' = [looking EXCEPT ![r] = Idle]
    /\ answer' = [answer EXCEPT ![r] = Idle]
    /\ UNCHANGED <<value, stable, writing>>

Persist ==
    /\ stable' = value
    /\ UNCHANGED <<value, writing, looking, answer>>

(* The processes of writers ws and readers rs die.                          *)
Crash(ws, rs) ==
    /\ writing' = [w \in Writers |-> IF w \in ws THEN Idle ELSE writing[w]]
    /\ looking' = [r \in Readers |-> IF r \in rs THEN Idle ELSE looking[r]]
    /\ answer' = [r \in Readers |-> IF r \in rs THEN Idle ELSE answer[r]]
    /\ UNCHANGED <<value, stable>>

LosePower ==
    /\ value' = stable
    /\ writing' = [w \in Writers |-> Idle]
    /\ looking' = [r \in Readers |-> Idle]
    /\ answer' = [r \in Readers |-> Idle]
    /\ UNCHANGED stable

Next ==
    \/ \E w \in Writers : (\E c \in Contents : Invoke(w, c)) \/ Commit(w) \/ Abort(w)
    \/ \E r \in Readers : Look(r) \/ Answer(r) \/ NoAnswer(r)
    \/ \E ws \in SUBSET Writers, rs \in SUBSET Readers : Crash(ws, rs)
    \/ Persist
    \/ LosePower

Spec == Init /\ [][Next]_vars
============================================================================
