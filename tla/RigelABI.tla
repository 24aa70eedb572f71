------------------------------- MODULE RigelABI -------------------------------
(***************************************************************************)
(* What compiled code promises, without registers, offsets or bytes: a     *)
(* call gives the function a store with one cell per local variable; cells *)
(* change only when they are assigned; the functions it calls see none of  *)
(* them; and it returns with its caller's registers as they were.          *)
(***************************************************************************)
EXTENDS Integers

CONSTANT CallerContext  \* the registers that a function preserves

VARIABLES
  phase,  \* "idle", "running", "calling" or "returned"
  store,  \* local variable |-> "undef" or "set"
  ctx     \* the preserved registers, as a caller sees them

abiVars == <<phase, store, ctx>>

ABIInit ==
  /\ phase = "idle"
  /\ store = <<>>
  /\ ctx = CallerContext

\* A call starts an activation; no local is defined.
Begin ==
  /\ phase = "idle" /\ phase' = "running"
  /\ store' = [i \in DOMAIN store' |-> "undef"]
  /\ UNCHANGED ctx

Assign(i) ==
  /\ phase = "running"
  /\ store' = [store EXCEPT ![i] = "set"]
  /\ UNCHANGED <<phase, ctx>>

Call ==
  /\ phase = "running" /\ phase' = "calling"
  /\ UNCHANGED <<store, ctx>>

Resume ==
  /\ phase = "calling" /\ phase' = "running"
  /\ UNCHANGED <<store, ctx>>

Return ==
  /\ phase = "running" /\ phase' = "returned"
  /\ store' = <<>>
  /\ ctx' = CallerContext

ABINext ==
  \/ Begin
  \/ \E i \in DOMAIN store : Assign(i)
  \/ Call \/ Resume \/ Return

ABISpec == ABIInit /\ [][ABINext]_abiVars
=============================================================================
