------------------------------ MODULE Allowance ------------------------------
(***************************************************************************)
(* What one wallet may spend from another one's balance of a contract.  An *)
(* allowance names an amount and the length of the period it is for.  The  *)
(* record of a grant is stored with its block; every use that succeeds     *)
(* stores a record of its own under a second key, which is preferred from  *)
(* then on.  (Uses never reach the first record: the list of uses a block  *)
(* is given is always empty.)  A transaction uses an allowance once.       *)
(*                                                                         *)
(* Times are in seconds, amounts in the unit the allowance is in.  A       *)
(* definition whose name ends in "Faulty" is a variant with a plausible    *)
(* mistake, not part of the model.                                         *)
(***************************************************************************)
EXTENDS Integers, Sequences

CONSTANT None   \* no record

(* A period is a number of seconds (unit "SECONDS"), 0 for one that never  *)
(* lasts, or is counted in months or not given at all (unit "OTHER").      *)
State(start, txn, end) ==
    [start |-> start, unit |-> txn.unit, period |-> txn.period, allowed |-> txn.allowed,
     used |-> 0, end |-> end]
NoStates == [granted |-> None, pre |-> None]
Lasting(g) == g.unit = "SECONDS" /\ g.period > 0
Momentary(g) == g.unit = "SECONDS" /\ g.period = 0

(* The first end of a period at or after a time.                           *)
Advance(end, period, now) ==
    IF end < now THEN end + ((now - end + period - 1) \div period) * period ELSE end

(* A transaction that authorises or revokes, in a block of the given time. *)
batch_allowanceFaulty(states, txn, now) ==
    LET start == IF txn.start = 0 THEN now ELSE txn.start
        end == IF Momentary(txn) THEN 0
               ELSE IF Lasting(txn) THEN Advance(start, txn.period, now) ELSE start
    IN  IF txn.authorize THEN [states EXCEPT !.granted = State(start, txn, end)] ELSE NoStates
batch_allowance(states, txn, now) ==
    LET start == IF txn.start = 0 THEN now ELSE txn.start
        end == IF Momentary(txn) THEN 0
               ELSE IF Lasting(txn) THEN Advance(start, txn.period, now) ELSE start
    IN  IF txn.authorize THEN [granted |-> State(start, txn, end), pre |-> None] ELSE NoStates

Current(states) == IF states.pre # None THEN states.pre ELSE states.granted

(* A new period starts when the last one is over, at once if it has no     *)
(* length, and never if it is counted in months.                           *)
Renewed(state, now) ==
    IF Momentary(state) THEN [state EXCEPT !.used = 0]
    ELSE IF Lasting(state) /\ state.end < now
    THEN [state EXCEPT !.used = 0, !.end = Advance(@, state.period, now)]
    ELSE state

(* check_allowance, at the time of the last block.                         *)
check_allowance(states, amount, now) ==
    /\ Current(states) # None
    /\ Current(states).start <= now
    /\ LET state == Renewed(Current(states), now)
       IN  state.allowed - state.used >= amount

(* A transfer that passes the check, and its other checks, stores its use. *)
Use(states, amount, now) ==
    LET state == Renewed(Current(states), now)
    IN  [states EXCEPT !.pre = [state EXCEPT !.used = @ + amount]]
=============================================================================
