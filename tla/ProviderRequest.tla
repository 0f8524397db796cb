--------------------------- MODULE ProviderRequest ---------------------------
(***************************************************************************)
(* What a caller asked for is mapped to the body a provider is sent, one   *)
(* row of the provider's table at a time and in the table's order.  Of the *)
(* rows that set one field the last that does has its way.                 *)
(*                                                                         *)
(* A value remembers the parameters it was made from.  Undefined is what   *)
(* a transform that finds nothing returns; a body does not carry it.       *)
(*                                                                         *)
(* Source: services/transformToProviderRequest.ts.                         *)
(***************************************************************************)
EXTENDS ParamTables

CONSTANTS
  Tables,    \* the rows of each table, by its name
  FormSent,  \* the tables whose request is sent as a form
  Says,      \* what callers may ask, by table: functions from parameters
  Unheard    \* the params a table does not hear, and without which others

(* lightport-default is a caller's word for "your default".                *)
CanBeAsked(value) ==
  /\ value.is \in {"number", "lightport-default", "text", "list", "word"}
  /\ value.n \in Int
Text == [is |-> "text", n |-> 0]
List == [is |-> "list", n |-> 0]
Absent == [is |-> "absent", n |-> 0, from |-> {}]

ASSUME ProviderRequestAssumption ==
  /\ FormSent \subseteq DOMAIN Tables
  /\ \A t \in DOMAIN Tables :
       Len(Tables[t]) \in Nat /\ DOMAIN Tables[t] = 1 .. Len(Tables[t])
  /\ \A t \in DOMAIN Says : \A ask \in Says[t] :
       \A p \in DOMAIN ask : CanBeAsked(ask[p])

(* A form repeats a field two rows set, where a body overwrites it: the    *)
(* tables sent as one name each field once.                                *)
ASSUME FormNamesOnce ==
  \A t \in FormSent : \A i, j \in DOMAIN Tables[t] :
    Tables[t][i].to = Tables[t][j].to => i = j

(* Only a parameter's own rows default a field it shares with an earlier   *)
(* row: a default of another's would take the place of what was said.      *)
ASSUME NoLateDefault ==
  \A t \in DOMAIN Tables : \A i, j \in DOMAIN Tables[t] :
    /\ i < j /\ Tables[t][i].to = Tables[t][j].to
    /\ Tables[t][j].must /\ Tables[t][j].default # None
    => Tables[t][i].of = Tables[t][j].of

(* What each parameter that a row speaks of gets to the provider by: a row *)
(* of its own, in a field no later row of its own leaves it out of; a row  *)
(* that always runs; or the rows of the partners it is Unheard without.    *)
Alike(config, i) == {j \in DOMAIN config : j >= i /\ config[j].to = config[i].to}
ReadFrom(config, i, p) == \A j \in Alike(config, i) : p \in config[j].reads
ASSUME AllAreHeard ==
  \A t \in DOMAIN Tables : LET config == Tables[t] IN
    \A p \in UNION {{config[i].of} \union config[i].reads : i \in DOMAIN config} :
      \/ \E i \in DOMAIN config :
           /\ config[i].of = p
           /\ \A j \in Alike(config, i) :
                config[j].of = p => config[j].reads = {} \/ p \in config[j].reads
      \/ \E i \in DOMAIN config :
           config[i].must /\ config[i].default # None /\ ReadFrom(config, i, p)
      \/ \E lost \in Unheard :
           /\ lost.table = t /\ p \in lost.params
           /\ \A q \in lost.without : \E i \in DOMAIN config :
                config[i].of = q /\ ReadFrom(config, i, p)

VARIABLES
  table,    \* the table of the provider and the endpoint; "none" has none
  asked,    \* what the caller asked
  params,   \* params: the same, as the rows read it
  at,       \* the row that is next; 0 before the first
  sent,     \* transformedRequest, or the form: the value of each field
  outcome   \* "mapping", "sent" or "refused"

vars == <<table, asked, params, at, sent, outcome>>

Rows(t) == IF t \in DOMAIN Tables THEN Tables[t] ELSE <<>>
rows == Rows(table)

Init ==
  /\ table \in DOMAIN Says
  /\ asked \in Says[table]
  /\ params = asked
  /\ at = 0
  /\ sent = [f \in Fields(rows) |-> Absent]
  /\ outcome = "mapping"

-----------------------------------------------------------------------------
(* A single stop sequence becomes a list of one.                           *)
NormaliseStop(ask) ==
  [p \in DOMAIN ask |-> IF p = "stop" /\ ask[p] = Text THEN List ELSE ask[p]]

Begin ==
  /\ outcome = "mapping" /\ at = 0
  /\ params' = NormaliseStop(params)
  /\ IF table \in DOMAIN Tables
     THEN at' = 1 /\ UNCHANGED outcome
     ELSE outcome' = "refused" /\ UNCHANGED at
  /\ UNCHANGED <<table, asked, sent>>

Clamp(value, row) ==
  IF value.is # "number" THEN value
  ELSE IF value.n < row.lo THEN [value EXCEPT !.n = row.lo]
  ELSE IF value.n > row.hi THEN [value EXCEPT !.n = row.hi]
  ELSE value

(* Mutant: a transform reads the parameter of its row and no other.        *)
CarriedAlone(row, ask) == row.reads \intersect {row.of} \intersect DOMAIN ask

(* The parameters a transform makes its value from.                        *)
Carried(row, ask) ==
  LET kept == {p \in row.reads \intersect DOMAIN ask :
                 ~(p \in row.truthy /\ ask[p] = [is |-> "number", n |-> 0])}
  IN  {p \in kept : ~\E q \in kept : <<q, p>> \in row.over}

Default(row, ask) ==
  [is |-> row.default.is, n |-> row.default.n, from |-> Carried(row, ask)]

getValue(row, ask) ==
  IF row.reads # {}
  THEN LET from == Carried(row, ask)
       IN  [is |-> IF from = {} THEN "undefined" ELSE "made", n |-> 0,
            from |-> from]
  ELSE LET given == ask[row.of]
           value == IF given.is = "lightport-default" /\ row.default # None
                    THEN row.default ELSE given
       IN  Clamp([is |-> value.is, n |-> value.n, from |-> {row.of}], row)

(* Mutant: a required row sets its default whatever was said.              *)
DefaultedAnyway(row, ask) == row.must /\ row.default # None

Said(row, ask) == row.of \in DOMAIN ask
Defaulted(row, ask) == ~Said(row, ask) /\ row.must /\ row.default # None

(* setNestedProperty, or append.                                           *)
Put(field, value) ==
  /\ sent' = [sent EXCEPT ![field] = value]
  /\ at' = at + 1
  /\ UNCHANGED <<table, asked, params, outcome>>

Mapping == outcome = "mapping" /\ at \in DOMAIN rows

PutSaid ==
  /\ Mapping /\ Said(rows[at], params)
  /\ Put(rows[at].to, getValue(rows[at], params))

PutDefault ==
  /\ Mapping /\ Defaulted(rows[at], params)
  /\ Put(rows[at].to, Default(rows[at], params))

Skip ==
  /\ Mapping /\ ~Said(rows[at], params) /\ ~Defaulted(rows[at], params)
  /\ at' = at + 1
  /\ UNCHANGED <<table, asked, params, sent, outcome>>

Send ==
  /\ outcome = "mapping" /\ at = Len(rows) + 1
  /\ outcome' = "sent"
  /\ UNCHANGED <<table, asked, params, at, sent>>

Next == Begin \/ PutSaid \/ PutDefault \/ Skip \/ Send

Spec == Init /\ [][Next]_vars

-----------------------------------------------------------------------------
(* The rows are gone through in order, on parameters whose stop is no      *)
(* longer a single text.                                                   *)
TypeOK ==
  /\ table \in DOMAIN Says
  /\ DOMAIN params = DOMAIN asked
  /\ at \in 0 .. Len(rows) + 1
  /\ at > 0 => \A p \in DOMAIN params :
                 CanBeAsked(params[p]) /\ (p = "stop" => params[p] # Text)
  /\ DOMAIN sent = Fields(rows)
  /\ outcome \in {"mapping", "sent", "refused"}

(* A field the caller spoke of carries what a row made of the caller's     *)
(* words.  No default stands in its place, whichever of the field's names  *)
(* the caller used and wherever in the table the default's row is.         *)
DefaultsYield ==
  outcome = "sent" =>
    \A i \in DOMAIN rows : rows[i].of \in DOMAIN asked =>
      \E j \in DOMAIN rows :
        /\ rows[j].to = rows[i].to
        /\ rows[j].of \in DOMAIN asked
        /\ sent[rows[i].to] = getValue(rows[j], params)

(* Whatever was said and some row of the table would carry gets to the     *)
(* provider, in a field of its own or made into another's: nothing is lost *)
(* to a row that runs later or to one that never runs.  What may be lost   *)
(* is a parameter said under two names, a zero a transform takes for       *)
(* unsaid, and what is Unheard without its partner.                        *)
Carries(row, p) == p = row.of \/ p \in row.reads
OtherName(p, q) ==
  \E i, j \in DOMAIN rows :
    \/ <<q, p>> \in rows[i].over
    \/ /\ rows[i].of = p /\ rows[j].of = q /\ p # q
       /\ rows[i].to = rows[j].to
       /\ p \notin rows[j].reads
LostZero(p) ==
  /\ asked[p] = [is |-> "number", n |-> 0]
  /\ \E i \in DOMAIN rows : p \in rows[i].truthy
SaidReaches ==
  outcome = "sent" =>
    \A p \in DOMAIN asked : (\E i \in DOMAIN rows : Carries(rows[i], p)) =>
      \/ \E f \in Fields(rows) : p \in sent[f].from
      \/ \E q \in DOMAIN asked : OtherName(p, q)
      \/ LostZero(p)
      \/ \E lost \in Unheard :
           /\ lost.table = table /\ p \in lost.params
           /\ lost.without \intersect DOMAIN asked = {}
=============================================================================
