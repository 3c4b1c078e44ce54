------------------------------- MODULE Driver -------------------------------
(***************************************************************************)
(* What every sensor and fan driver shares (driver.h, driver.cpp): whether *)
(* its init() has ever succeeded, how many operations have failed in a     *)
(* row, and whether a failed operation is swallowed or thrown.             *)
(*                                                                         *)
(* errors_ is an unsigned counter that is only ever compared with          *)
(* max_errors(), so it is kept saturated at the driver's own max_errors:   *)
(* every comparison has the outcome it has in the code.                    *)
(***************************************************************************)
EXTENDS Integers

CONSTANT ChkSanity        \* FALSE is "-D", which turns every throw of
                          \* handle_io_error_ into a logged message

ASSUME ChkSanityAssumption == ChkSanity \in BOOLEAN

\* initial_state_ of a fan: empty, or who was in control when it was read.
\* A sensor never has one.
Modes == {"firmware", "thinkfan"}
Saved == Modes \union {"none"}

Driver == [inited : BOOLEAN, errors : Nat, saved : Saved]

Fresh == [inited |-> FALSE, errors |-> 0, saved |-> "none"]

\* robust_op increments errors_ before it runs the operation.
CountError(o, maxErr) ==
  [o EXCEPT !.errors = IF @ < maxErr THEN @ + 1 ELSE maxErr]

\* Driver::max_errors()
MaxErrors(maxErr, tolerate) == IF tolerate > maxErr THEN tolerate ELSE maxErr

\* handle_io_error_: TRUE when skip_fn runs, FALSE when the error is thrown.
Forgives(o, optional, maxErr, tolerate) ==
  \/ optional
  \/ tolerate > 0
  \/ o.errors < MaxErrors(maxErr, tolerate)
  \/ ~ChkSanity

=============================================================================
