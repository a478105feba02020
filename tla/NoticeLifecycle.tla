---------------------------- MODULE NoticeLifecycle ----------------------------
(***************************************************************************)
(* What the daemon promises about a notice, to the job's owner who reads   *)
(* its delivery and to the recipient who is called: it is tried at most    *)
(* Attempts times; SUCCESS was said by the recipient, FAILED comes after   *)
(* all the attempts; an outcome is final and ends the requests; and a      *)
(* notice whose job is removed leads to one more request at most, the one  *)
(* that was under way.                                                     *)
(***************************************************************************)
EXTENDS Naturals

CONSTANTS Notice, Attempts

VARIABLES
    state,   \* of each notice; "leaving" is removed, with a request to come
    tries,   \* the attempts that were recorded
    taken,   \* the notices that the recipient has taken
    unheard  \* those with an answer that was lost on the way to the table

vars == <<state, tries, taken, unheard>>

Init ==
    /\ state = [n \in Notice |-> "none"]
    /\ tries = [n \in Notice |-> 0]
    /\ taken = {}
    /\ unheard = {}

Move(n, from, to) ==
    /\ state[n] \in from
    /\ state' = [state EXCEPT ![n] = to]

Try(n) == tries' = [tries EXCEPT ![n] = @ + 1]

Store(n) ==
    /\ Move(n, {"none"}, "PENDING")
    /\ UNCHANGED <<tries, taken, unheard>>

\* The recipient is asked, and takes the notice or not.
Ask(n) ==
    /\ \/ Move(n, {"PENDING"}, "PENDING")
       \/ Move(n, {"leaving"}, "gone")
    /\ taken' \in {taken, taken \cup {n}}
    /\ UNCHANGED <<tries, unheard>>

Retry(n) ==
    /\ Move(n, {"PENDING"}, "PENDING")
    /\ tries[n] + 1 < Attempts
    /\ Try(n)
    /\ UNCHANGED <<taken, unheard>>

Succeed(n) ==
    /\ Move(n, {"PENDING"}, "SUCCESS")
    /\ n \in taken
    /\ Try(n)
    /\ UNCHANGED <<taken, unheard>>

GiveUp(n) ==
    /\ Move(n, {"PENDING"}, "FAILED")
    /\ tries[n] + 1 = Attempts
    /\ n \in taken => n \in unheard
    /\ Try(n)
    /\ UNCHANGED <<taken, unheard>>

Remove(n) ==
    /\ \/ Move(n, {"PENDING", "SUCCESS", "FAILED"}, "gone")
       \/ Move(n, {"PENDING"}, "leaving")
    /\ UNCHANGED <<tries, taken, unheard>>

\* An answer is lost, as the table fails or the daemon ends, which takes the
\* requests of the removed notices with it.
Lose ==
    /\ \E lost \in SUBSET {n \in Notice : state[n] \in {"PENDING", "gone"}} :
          unheard' = unheard \cup lost
    /\ \E quiet \in SUBSET {n \in Notice : state[n] = "leaving"} :
          state' = [n \in Notice |-> IF n \in quiet THEN "gone" ELSE state[n]]
    /\ UNCHANGED <<tries, taken>>

Next ==
    \/ \E n \in Notice :
          Store(n) \/ Ask(n) \/ Retry(n) \/ Succeed(n) \/ GiveUp(n) \/ Remove(n)
    \/ Lose

Spec == Init /\ [][Next]_vars
===============================================================================
