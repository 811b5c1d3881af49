--------------------------- MODULE MCConfiguration ---------------------------
(***************************************************************************)
(* The files TLC looks at.  Catalogs of up to two rules over two of the    *)
(* five fields (the others are treated alike), two values and channels.    *)
(* Templates of up to six tokens, and event messages: one that says all,   *)
(* one that leaves texts empty, one without a title; a text and a fact     *)
(* that look like placeholders, and a fact with a line break in it.        *)
(***************************************************************************)
EXTENDS Configuration

PolicyFields == {"state", "severity"}
PolicyValues == {"x", "y"}

MCRules ==
  [enabled : BOOLEAN,
   where : {w \in [PolicyFields -> PolicyValues \cup {Unset}] : w["severity"] # "y"},
   channels : {<<"a">>, <<"b", "a">>, <<"a", "b", "a">>}]

MCTokens == {"{", "}", "detail", "fields", "facts"}

Message(title, detail) ==
  [title |-> title, detail |-> [s \in Statuses |-> detail],
   action |-> [s \in Statuses |-> IF s = "firing" THEN <<"act">> ELSE <<>>]]

MCEventMessages ==
  {NoMessage, Message(<<"title">>, <<"{", "fields", "}">>), Message(<<"title">>, <<>>),
   Message(<<>>, <<"detail">>)}

MCFieldChoices ==
  {[label |-> <<"Disk">>, fact |-> "path"], [label |-> <<"List">>, fact |-> "list"],
   [label |-> <<"None">>, fact |-> "absent"]}

MCFacts ==
  [path |-> <<"a", Newline, "{", "detail", "}">>, list |-> Structured]
=============================================================================
