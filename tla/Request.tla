------------------------------ MODULE Request ------------------------------
(***************************************************************************)
(* serving_cast/request.py: the life of one simulated inference request.   *)
(*                                                                         *)
(* A request is a record; the operators below are the methods of Request   *)
(* as functions from a record to a record.  Fields have the names of the   *)
(* Python attributes without their num_ prefix; new_tokens is              *)
(* num_current_max_new_tokens, accepted is                                 *)
(* num_accepted_tokens_in_current_step.  Time stamps are left out.         *)
(*                                                                         *)
(* The expected number of decoded tokens is a rational in the code (the    *)
(* acceptance rates of the MTP heads are fractions); here it is counted in *)
(* units of 1/Scale tokens.                                                *)
(***************************************************************************)
EXTENDS Integers, FiniteSets

CONSTANTS Requests,        (* the requests                                      *)
          InputTokens,     (* num_input_tokens of each request                  *)
          OutputTokens,    (* num_output_tokens of each request                 *)
          DecodeQueryLen,  (* tokens computed by one decode step: 1 + MTP heads *)
          Scale,           (* units of one token in expected counts             *)
          AvgDecodeTokens  (* tokens one decode step yields on average, in      *)
                           (* units of 1/Scale                                  *)

ASSUME RequestAssumption ==
    /\ IsFiniteSet(Requests)
    /\ InputTokens \in [Requests -> Nat \ {0}]
    /\ OutputTokens \in [Requests -> Nat \ {0}]
    /\ DecodeQueryLen \in Nat \ {0}
    /\ Scale \in Nat \ {0}
    /\ AvgDecodeTokens \in Scale .. DecodeQueryLen * Scale

RequestStates == {"INITIAL", "PREFILLING", "PREFILL_DONE", "RECOMPUTATION",
                  "KVS_TRANSFERRING", "DECODING", "DECODE_DONE"}

RequestRecords ==
    [state : RequestStates, decoded : Nat, accepted : Nat, expected : Nat,
     next_expected : Nat, new_tokens : Nat, seq_len : Nat, query_len : Nat,
     need_kv_transfer : BOOLEAN, kv_transfer_done : BOOLEAN]

Min2(a, b) == IF a < b THEN a ELSE b
Max2(a, b) == IF a < b THEN b ELSE a

-----------------------------------------------------------------------------

NewRequest(r) ==
    [state |-> "INITIAL", decoded |-> 0, accepted |-> 1, expected |-> 0,
     next_expected |-> 0, new_tokens |-> InputTokens[r], seq_len |-> 0,
     query_len |-> 0, need_kv_transfer |-> FALSE, kv_transfer_done |-> FALSE]

(* The state setter. *)
WithState(q, s) == [q EXCEPT !.state = s]

(* complete_generation_step: tokens the step that just ran has generated. *)
GeneratedTokens(r, q) ==
    CASE q.state = "DECODING"   -> Min2(q.accepted, Max2(0, OutputTokens[r] - q.decoded))
      [] q.state = "PREFILLING" -> 1
      [] OTHER                  -> 0

CompleteGenerationStep(r, q) ==
    LET decoded == q.decoded + GeneratedTokens(r, q)
    IN  [q EXCEPT !.decoded  = decoded,
                  !.expected = CASE q.state = "DECODING"   -> Max2(q.next_expected, decoded * Scale)
                                 [] q.state = "PREFILLING" -> decoded * Scale
                                 [] OTHER                  -> @]

(* prepare_decode_step: the next decode computes a whole window of         *)
(* DecodeQueryLen tokens and keeps the `accepted` ones.                    *)
PrepareDecodeStep(r, q) ==
    LET next == Min2(OutputTokens[r] * Scale, q.expected + AvgDecodeTokens)
    IN  [q EXCEPT !.accepted      = Max2(1, (next \div Scale) - q.decoded),
                  !.next_expected = next,
                  !.new_tokens    = DecodeQueryLen]
=============================================================================
