----------------------------- MODULE EventLimits -----------------------------
(***************************************************************************)
(* How large an event may be: Event::validate and require_field of         *)
(* src/src/model.rs, which beacon-agent send applies before it queues an   *)
(* event and the server before it accepts one, and the limit the server's  *)
(* router puts on a request body (src/src/server.rs:859).                  *)
(*                                                                         *)
(* An event that send queued and the server refused for its size would be  *)
(* posted again by every drain, and nothing that sorts after it would ever *)
(* be delivered.  The limits are on parts, in bytes of the part; the body  *)
(* is the JSON of the whole, in which a byte of text can take six.         *)
(*                                                                         *)
(* An event is built part by part, until a part breaks a limit; only the   *)
(* lengths matter.                                                         *)
(***************************************************************************)
EXTENDS Integers, FiniteSets

CONSTANTS
  TextFields,   \* the fields that are texts
  FieldLimit,   \* FieldLimit[f]: the most bytes of such a field
  Texts,        \* lengths of texts: bytes, and encoded between the quotes
  ValueSizes,   \* lengths of the JSON of a fact's value
  MaxFacts, KeyLimit, ValueLimit,
  Frame,        \* the length of all that is always there: names, braces, state ...
  BodyLimit,    \* DefaultBodyLimit::max
  FactBound     \* bound: facts of an event

VARIABLES
  missing,   \* the text fields not there yet
  facts,     \* the number of facts
  valid,     \* no limit was exceeded
  size       \* the length of the JSON

eventVars == <<missing, facts, valid, size>>

Escape == 6      \* \u0000, the longest encoding of one byte
Quotes == 2

LongestField == 256

ASSUME LimitsAssumption ==
  /\ IsFiniteSet(TextFields)
  /\ FieldLimit \in [TextFields -> 0..LongestField]
  /\ Texts \subseteq [bytes : Nat, encoded : Nat]
  /\ \A t \in Texts : t.encoded <= Escape * t.bytes
  /\ ValueSizes \subseteq Nat
  /\ MaxFacts \in Nat /\ KeyLimit \in Nat /\ ValueLimit \in Nat /\ Frame \in Nat
  /\ BodyLimit \in Nat /\ FactBound \in Nat

(* The most one text field, and one fact with its colon and comma, takes. *)
FieldSpace == Escape * LongestField + Quotes
FactSpace == Escape * KeyLimit + Quotes + ValueLimit + 2

ASSUME RoomAssumption ==
  Frame + Cardinality(TextFields) * FieldSpace + MaxFacts * FactSpace <= BodyLimit

EventInit == missing = TextFields /\ facts = 0 /\ valid = TRUE /\ size = Frame

(* require_field *)
Allowed(text, limit) == text.bytes >= 1 /\ text.bytes <= limit

AddText(f, text) ==
  /\ valid /\ f \in missing
  /\ missing' = missing \ {f}
  /\ valid' = Allowed(text, FieldLimit[f])
  /\ size' = size + text.encoded + Quotes
  /\ UNCHANGED facts

(* Mutant: the number of facts is not limited. *)
AddFactUncounted(key, value) ==
  /\ valid /\ facts < FactBound
  /\ facts' = facts + 1
  /\ valid' = (Allowed(key, KeyLimit) /\ value <= ValueLimit)
  /\ size' = size + key.encoded + Quotes + value + 2
  /\ UNCHANGED missing

(* Of a value the length of its JSON is limited, of a key that of its text.*)
AddFact(key, value) ==
  /\ valid /\ facts < FactBound
  /\ facts' = facts + 1
  /\ valid' = (facts < MaxFacts /\ Allowed(key, KeyLimit) /\ value <= ValueLimit)
  /\ size' = size + key.encoded + Quotes + value + 2
  /\ UNCHANGED missing

EventNext ==
  \/ \E f \in TextFields, text \in Texts : AddText(f, text)
  \/ \E key \in Texts, value \in ValueSizes : AddFact(key, value)

EventSpec == EventInit /\ [][EventNext]_eventVars

-----------------------------------------------------------------------------
(* An event that validate lets through fits into a request body, so that   *)
(* no event that was queued is refused for ever and holds up the rest.     *)
ValidFits == valid => size <= BodyLimit
=============================================================================
