------------------------------ MODULE Templates ------------------------------
(***************************************************************************)
(* The messages the operator can write: MessageTemplates::validate,        *)
(* validate_template, render_event, render_template and render_fields of   *)
(* src/src/notification.rs.  Templates are read and validated at startup;  *)
(* an event is rendered when it is accepted.                               *)
(*                                                                         *)
(* A text is a sequence of tokens: the two braces, a line break, and words *)
(* that stand for any run of other characters, the names of placeholders   *)
(* among them.  The checks look at every template and every list of mapped *)
(* fields up to a length, and at every alert status and event message of a *)
(* small set.  Of the size limits of validate only the ones on emptiness   *)
(* are kept.                                                               *)
(***************************************************************************)
EXTENDS Naturals, Sequences, FiniteSets, SequencesExt

CONSTANTS
  Tokens,        \* the tokens a template may be made of
  FieldChoices,  \* the mapped fields, [label, fact], an event message may have
  EventMessages, \* the event messages but for their fields, and NoMessage
  NoMessage,     \* the event type has none
  Facts,         \* Facts[f]: the value of each fact of the event, a text or Structured
  Structured,    \* a value that is an array, an object or null
  MaxTokens,     \* bound: tokens of a template
  MaxFields      \* bound: fields of an event message

VARIABLES template, fields

Statuses == {"firing", "resolved", "info"}
Placeholders == {"icon", "status", "host", "title", "detail", "action", "severity", "fields"}
Newline == "newline"
Opening == "{"
Closing == "}"
Wordings == Seq(STRING)
StateTexts == [Statuses -> Wordings]

ASSUME TextsAssumption ==
  /\ Tokens \subseteq STRING
  /\ FieldChoices \subseteq [label : Wordings, fact : STRING]
  /\ EventMessages \ {NoMessage} \subseteq [title : Wordings, detail : StateTexts, action : StateTexts]
  /\ \A fact \in DOMAIN Facts : Facts[fact] = Structured \/ Facts[fact] \in Wordings

-----------------------------------------------------------------------------
(* validate_template *)

(* Mutant: a closing brace is looked for, the name before it is not. *)
KnownAny(name) == TRUE

Known(name) == Len(name) = 1 /\ name[1] \in Placeholders

(* Outside a placeholder only the text after the last one is looked at for *)
(* a closing brace; inside, everything up to the brace is the name.        *)
ScanToken(p, t) ==
  IF p.open
  THEN IF t = Closing
       THEN [open |-> FALSE, name |-> <<>>, stray |-> FALSE, bad |-> p.bad \/ ~Known(p.name)]
       ELSE [p EXCEPT !.name = Append(@, t)]
  ELSE IF t = Opening
       THEN [p EXCEPT !.open = TRUE, !.stray = FALSE]
       ELSE [p EXCEPT !.stray = @ \/ t = Closing]

Accepts(text) ==
  LET scan[i \in 0..Len(text)] ==
        IF i = 0 THEN [open |-> FALSE, name |-> <<>>, stray |-> FALSE, bad |-> FALSE]
        ELSE ScanToken(scan[i - 1], text[i])
      end == scan[Len(text)]
  IN  text # <<>> /\ ~end.open /\ ~end.stray /\ ~end.bad

(* What MessageTemplates::validate asks of the message of an event type. *)
ValidMessage(message, mapped) ==
  /\ message.title # <<>>
  /\ \A i \in DOMAIN mapped : mapped[i].label # <<>> /\ mapped[i].fact # ""

-----------------------------------------------------------------------------
(* render_template *)

ValueOf(name, values) ==
  IF Len(name) = 1 /\ name[1] \in DOMAIN values THEN values[name[1]] ELSE <<>>

RenderToken(p, t, values) ==
  IF p.open
  THEN IF t = Closing
       THEN [open |-> FALSE, name |-> <<>>, out |-> p.out \o ValueOf(p.name, values)]
       ELSE [p EXCEPT !.name = Append(@, t)]
  ELSE IF t = Opening
       THEN [p EXCEPT !.open = TRUE]
       ELSE [p EXCEPT !.out = Append(@, t)]

RenderText(text, values) ==
  LET read[i \in 0..Len(text)] ==
        IF i = 0 THEN [open |-> FALSE, name |-> <<>>, out |-> <<>>]
        ELSE RenderToken(read[i - 1], text[i], values)
      end == read[Len(text)]
  IN  IF end.open THEN end.out \o ValueOf(end.name, values) ELSE end.out

(* Mutant: the rendered text is rendered once more. *)
RenderTwice(text, values) == RenderText(RenderText(text, values), values)

Render(text, values) == RenderText(text, values)

-----------------------------------------------------------------------------
(* render_fields *)

(* Mutant: control characters stay. *)
AsIs(value) == value

KeepToken(text, t) == IF t = Newline THEN text ELSE Append(text, t)

Cleaned(value) ==
  LET kept[i \in 0..Len(value)] ==
        IF i = 0 THEN <<>> ELSE KeepToken(kept[i - 1], value[i])
  IN  kept[Len(value)]

Shown(field) == field.fact \in DOMAIN Facts /\ Facts[field.fact] # Structured

Line(field) == field.label \o <<": ">> \o Cleaned(Facts[field.fact])

AddField(text, field) ==
  IF ~Shown(field) THEN text
  ELSE IF text = <<>> THEN Line(field) ELSE text \o <<Newline>> \o Line(field)

RenderFields(mapped) ==
  LET text[i \in 0..Len(mapped)] ==
        IF i = 0 THEN <<>> ELSE AddField(text[i - 1], mapped[i])
  IN  text[Len(mapped)]

-----------------------------------------------------------------------------
(* render_event *)

(* Mutant: an empty text of the event message is taken as it is. *)
NoFallback(text, fallback) == text

OrElse(text, fallback) == IF text = <<>> THEN fallback ELSE text

(* The names of words stand for the constant texts of the code. *)
PlaceholderValues(status, message, mapped) ==
  [icon |-> <<"icon", status>>,
   status |-> <<"ALERT", status>>,
   host |-> <<"Host">>,
   title |-> IF message = NoMessage THEN <<"Monitored condition">> ELSE message.title,
   detail |-> IF message = NoMessage THEN <<"default detail", status>>
              ELSE OrElse(message.detail[status], <<"default detail", status>>),
   action |-> IF message = NoMessage THEN <<"default action", status>>
              ELSE OrElse(message.action[status], <<"default action", status>>),
   severity |-> <<"critical">>,
   fields |-> IF message = NoMessage THEN <<>> ELSE RenderFields(mapped)]

RenderEvent(status, message, mapped) == Render(template, PlaceholderValues(status, message, mapped))

-----------------------------------------------------------------------------
(* A template and a list of fields as an operator may write them. *)

TemplatesInit == template = <<>> /\ fields = <<>>

WriteToken(t) ==
  /\ Len(template) < MaxTokens
  /\ template' = Append(template, t)
  /\ UNCHANGED fields

MapField(f) ==
  /\ Len(fields) < MaxFields
  /\ fields' = Append(fields, f)
  /\ UNCHANGED template

-----------------------------------------------------------------------------
(* Properties *)

(* Position i of the template opens a placeholder with a known name. *)
OpensAt(i) ==
  /\ i + 2 <= Len(template)
  /\ template[i] = Opening /\ template[i + 1] \in Placeholders /\ template[i + 2] = Closing

PartOfPlaceholder(i) == \E j \in {i - 2, i - 1, i} : j >= 1 /\ OpensAt(j)

(* The startup check accepts no template with an unknown, unclosed or      *)
(* nested placeholder, and refuses none that is made of known placeholders *)
(* and text without braces.                                                *)
AcceptedIsWellFormed ==
  LET braces == {i \in DOMAIN template : template[i] \in {Opening, Closing}}
  IN  /\ Accepts(template) =>
           \A i \in braces : template[i] = Opening => OpensAt(i)
      /\ template # <<>> /\ (\A i \in braces : PartOfPlaceholder(i)) => Accepts(template)

(* The message of an accepted template is that template with each          *)
(* placeholder replaced by its text and nothing else changed: a configured *)
(* text or a fact that looks like a placeholder is not rendered again.     *)
RenderIsSubstitution ==
  Accepts(template) =>
    \A status \in Statuses, message \in EventMessages :
      RenderEvent(status, message, fields) =
        FlattenSeq([i \in DOMAIN template |->
          IF ~PartOfPlaceholder(i) THEN <<template[i]>>
          ELSE IF OpensAt(i) THEN PlaceholderValues(status, message, fields)[template[i + 1]]
          ELSE <<>>])

(* Where a text breaks, and the shown ones among the first n fields. *)
Breaks(text) == {i \in DOMAIN text : text[i] = Newline}
ShownTo(n) == {k \in 1..n : Shown(fields[k])}

(* The startup check does not look for a line break in a label. *)
PlainLabels == \A k \in ShownTo(Len(fields)) : Newline \notin ToSet(fields[k].label)

(* However a fact is made, the mapped fields are one line each, in the     *)
(* order of the configuration: the n-th shown field has the n-th line,     *)
(* which starts with its label, and there are no other lines.  A value     *)
(* neither breaks its line nor passes for another field.  Only a label the *)
(* operator wrote with a line break in it breaks a line.                   *)
FieldsAreLines ==
  LET text == RenderFields(fields)
      breaks == Breaks(text)
  IN  PlainLabels =>
        /\ IF ShownTo(Len(fields)) = {} THEN text = <<>>
           ELSE Cardinality(ShownTo(Len(fields))) = Cardinality(breaks) + 1
        /\ \A k \in ShownTo(Len(fields)) : \E start \in DOMAIN text :
             /\ start = 1 \/ start - 1 \in breaks
             /\ Cardinality({i \in breaks : i < start}) + 1 = Cardinality(ShownTo(k))
             /\ IsPrefix(fields[k].label \o <<": ">>, SubSeq(text, start, Len(text)))

(* No message has an empty part where the operator or the code has a text  *)
(* for it: what the startup check demands of an event message and what     *)
(* rendering falls back to leave no gap between them.                      *)
NoEmptyPart ==
  \A status \in Statuses, message \in EventMessages :
    message = NoMessage \/ ValidMessage(message, fields) =>
      \A name \in Placeholders \ {"fields"} :
        PlaceholderValues(status, message, fields)[name] # <<>>
=============================================================================
