---------------------------- MODULE Configuration ----------------------------
(***************************************************************************)
(* The two files an operator writes and the server reads when it starts:   *)
(* the policy catalog (read_policy of src/src/bin/beacon-server.rs) and    *)
(* the message templates (TelegramConfig::load of src/src/notification.rs).*)
(* Neither refers to the other, so that a behaviour writes one of them,    *)
(* rule by rule or token by token, and stops anywhere.                     *)
(***************************************************************************)
EXTENDS Policy, Templates

vars == <<catalog, template, fields>>

Init == PolicyInit /\ TemplatesInit

WritePolicy ==
  /\ template = <<>> /\ fields = <<>>
  /\ \E rule \in Rules : AddRule(rule)
  /\ UNCHANGED <<template, fields>>

WriteTemplates ==
  /\ catalog = <<>>
  /\ (\E t \in Tokens : WriteToken(t)) \/ (\E f \in FieldChoices : MapField(f))
  /\ UNCHANGED catalog

Next == WritePolicy \/ WriteTemplates

Spec == Init /\ [][Next]_vars
=============================================================================
