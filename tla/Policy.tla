------------------------------- MODULE Policy -------------------------------
(***************************************************************************)
(* Which channels an event is routed to: PolicyCatalog::channels_for and   *)
(* PolicyRule::matches of src/src/policy.rs.  A catalog is read once, rule *)
(* by rule; the checks look at every catalog up to a length.               *)
(***************************************************************************)
EXTENDS Naturals, Sequences, SequencesExt

CONSTANTS
  Fields,     \* what a rule can ask for: event_type, source, host_id, state, severity
  Values,     \* the values of those fields
  Unset,      \* a field the rule says nothing about
  Channels,   \* the channel names
  Rules,      \* the rules a catalog may hold
  MaxRules    \* bound: rules in a catalog

VARIABLE catalog

ASSUME UnsetAssumption == Unset \notin Values

ASSUME RulesAssumption ==
  Rules \subseteq [enabled : BOOLEAN, where : [Fields -> Values \cup {Unset}],
                   channels : Seq(Channels)]

RoutedEvents == [Fields -> Values]

(* A rule matches when every field it names has the value it names. *)
Matches(rule, e) == \A f \in Fields : rule.where[f] = Unset \/ rule.where[f] = e[f]

(* Mutant: a channel is only compared with the last one found. *)
PushNewAfterLast(known, c) ==
  IF known # <<>> /\ known[Len(known)] = c THEN known ELSE Append(known, c)

PushNew(known, c) == IF c \in ToSet(known) THEN known ELSE Append(known, c)

PushAll(known, channels) ==
  LET pushed[i \in 0..Len(channels)] ==
        IF i = 0 THEN known ELSE PushNew(pushed[i - 1], channels[i])
  IN  pushed[Len(channels)]

Applies(rule, e) == rule.enabled /\ Matches(rule, e)

AddRoutes(known, rule, e) == IF Applies(rule, e) THEN PushAll(known, rule.channels) ELSE known

ChannelsFor(rules, e) ==
  LET found[k \in 0..Len(rules)] ==
        IF k = 0 THEN <<>> ELSE AddRoutes(found[k - 1], rules[k], e)
  IN  found[Len(rules)]

PolicyInit == catalog = <<>>

AddRule(rule) == Len(catalog) < MaxRules /\ catalog' = Append(catalog, rule)

-----------------------------------------------------------------------------
(* The places, <<rule, place in the rule>>, where a rule that applies to e *)
(* names a channel; they are read in this order.                           *)
Mentions(e) ==
  {m \in UNION {{k} \X DOMAIN catalog[k].channels : k \in DOMAIN catalog} :
     Applies(catalog[m[1]], e)}

Mentioned(m) == catalog[m[1]].channels[m[2]]

Before(m, n) == m[1] < n[1] \/ (m[1] = n[1] /\ m[2] < n[2])

(* An event is routed to each channel some enabled matching rule names,    *)
(* once, in the order of first mention: of two routed channels, the first  *)
(* is named before every mention of the second.  Once is what              *)
(* enqueue_notifications leans on: a repeat would be swallowed by INSERT   *)
(* OR IGNORE.                                                              *)
RoutesAreFirstMentions ==
  \A e \in RoutedEvents :
    LET routes == ChannelsFor(catalog, e)
        mentions == Mentions(e)
    IN  /\ ToSet(routes) = {Mentioned(m) : m \in mentions}
        /\ \A i, j \in DOMAIN routes : i < j =>
             \E m \in mentions :
               /\ Mentioned(m) = routes[i]
               /\ \A n \in mentions : Mentioned(n) = routes[j] => Before(m, n)
=============================================================================
