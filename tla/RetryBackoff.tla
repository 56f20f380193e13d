---------------------------- MODULE RetryBackoff ----------------------------
(***************************************************************************)
(* How long a retry waits: the setting max_retry_backoff_ms as             *)
(* src/src/workflow.rs reads it, and retry_delay_ms in                     *)
(* src/src/orchestrator.rs, computed in integers of a width.               *)
(***************************************************************************)
EXTENDS Integers

CONSTANTS
    Width,          \* bits of u64
    Base,           \* 10_000 milliseconds
    Default         \* DEFAULT_MAX_RETRY_BACKOFF_MS

ASSUME BackoffAssumption ==
    /\ Width \in Nat \ {0, 1} /\ Base \in 1 .. 2 ^ (Width - 1) - 1
    /\ Default \in 1 .. 2 ^ (Width - 1) - 1

MaxUnsigned == 2 ^ Width - 1
MaxSigned == 2 ^ (Width - 1) - 1

(* A number may be written as such or as text; it may be missing, or text   *)
(* that is no number.                                                       *)
Setting == [written : {"number", "text"}, value : -1 .. MaxSigned]
            \union [written : {"missing", "word"}, value : {0}]

(* parse_i64 and parse_u64. *)
ParseI64(s, default) == IF s.written \in {"number", "text"} THEN s.value ELSE default

ParseU64(s, default) ==
    LET parsed == ParseI64(s, default) IN IF parsed < 0 THEN default ELSE parsed

MaxRetryBackoff(setting) == ParseU64(setting, Default)

Least(a, b) == IF a < b THEN a ELSE b

SaturatingMul_Wraps(a, b) == (a * b) % 2 ^ Width

SaturatingMul(a, b) == Least(a * b, MaxUnsigned)
SaturatingPow2(n) == IF n < Width THEN 2 ^ n ELSE MaxUnsigned

RetryDelay(attempt, setting) ==
    Least(SaturatingMul(Base, SaturatingPow2(attempt - 1)), MaxRetryBackoff(setting))

=============================================================================
