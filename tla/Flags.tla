------------------------------- MODULE Flags -------------------------------
(***************************************************************************)
(* A flag and its sequence lock.  Either threads make the calls of         *)
(* FlagImpl on a flag of one of several kinds, which drives the lock as    *)
(* its guards allow, or the lock is used bare: one writer that writes and  *)
(* counts at any time, and readers.  The variables of SequenceLock belong  *)
(* to both.                                                                *)
(***************************************************************************)
EXTENDS FlagImpl

rest == <<use, once, view, cbguard, vguard, state, thread, seen>>

Bare == use.kind = "SequenceLock"

BareNext == Bare /\ Next /\ UNCHANGED rest
FlagsNext == BareNext \/ (~Bare /\ FlagNext)

\* A thread that can go on does.  Calls are bounded, so a mutex is not taken by others
\* for ever.
FlagsFairness ==
  /\ WF_flag_vars(~Bare /\ Initialize)
  /\ \A t \in Readers : WF_flag_vars(~Bare /\ Step(t))

FlagsSpec == FlagInit /\ [][FlagsNext]_flag_vars /\ FlagsFairness

-----------------------------------------------------------------------------
Use(kind, ops) == [kind |-> kind, ops |-> ops, validator |-> "null", gets |-> FALSE]
\* A flag that was registered with a validator.
Validated(kind, ops, gets) == [Use(kind, ops) EXCEPT !.validator = "set", !.gets = gets]

FlagUses ==
  {Use("SequenceLock", {}),
   Use("kSequenceLocked", {"get", "Write", "set_flag_callback"}),
   Use("kAlignedBuffer", {"Write", "set_flag_callback", "SaveState", "RestoreState", "SET_FLAGS_VALUE"}),
   Use("kOneWordAtomic", {"Write", "SET_FLAG_IF_DEFAULT", "SET_FLAGS_DEFAULT", "SaveState",
                          "RestoreState", "set_validator"}),
   Validated("kSequenceLocked", {"Write", "user_validate"}, TRUE),
   Validated("kOneWordAtomic", {"Write", "set_validator", "user_validate"}, TRUE),
   Validated("kAlignedBuffer", {"get", "Write", "set_validator", "user_validate"}, FALSE)}

\* A validator that gets a flag whose value is read under the exclusive guard.
AlignedUses == {Validated("kAlignedBuffer", {"user_validate"}, TRUE)}
=============================================================================
