------------------------ MODULE ProviderExchangeProofs ------------------------
(***************************************************************************)
(* What is proved of a request and its answer.  Of the mapping of a        *)
(* request: for every table that keeps to the assumptions of               *)
(* ProviderRequest, of any length, and for whatever a caller asks.  Of a   *)
(* stream: for every catalogue that keeps to CatalogueAssumption, any      *)
(* messages of any number of blocks, and any order their pieces may come   *)
(* in.                                                                     *)
(***************************************************************************)
EXTENDS ProviderExchange, FiniteSetTheorems, TLAPS

(* The rows gone through so far leave in each field they were asked to set *)
(* what one of the asked rows makes.                                       *)
SetByAsked(f, n) ==
  \E j \in DOMAIN rows :
    j < n /\ rows[j].to = f /\ Said(rows[j], params)
    /\ sent[f] = getValue(rows[j], params)

AskedSoFar ==
  \A i \in DOMAIN rows :
    i < at /\ Said(rows[i], params) => SetByAsked(rows[i].to, at)

Progress ==
  /\ outcome = "mapping" => at <= Len(rows) + 1
  /\ outcome = "sent" => at = Len(rows) + 1
  /\ outcome = "refused" => at = 0
  /\ at > 0 => table \in DOMAIN Tables

Normalised ==
  /\ \A p \in DOMAIN params : CanBeAsked(params[p])
  /\ at > 0 => \A p \in DOMAIN params : p = "stop" => params[p] # Text

Data ==
  /\ table \in DOMAIN Says
  /\ asked \in Says[table]
  /\ DOMAIN params = DOMAIN asked
  /\ at \in Nat
  /\ sent = [f \in Fields(rows) |-> sent[f]]
  /\ outcome \in {"mapping", "sent", "refused"}

IInv == Data /\ Progress /\ Normalised

-----------------------------------------------------------------------------
(* Rows and fields of the table in hand.                                   *)
LEMMA RowsDomain ==
  /\ Len(rows) \in Nat
  /\ DOMAIN rows = 1 .. Len(rows)
<1>1. CASE table \in DOMAIN Tables
  BY <1>1, ProviderRequestAssumption DEF rows, Rows
<1>2. CASE table \notin DOMAIN Tables
  BY <1>2 DEF rows, Rows
<1> QED BY <1>1, <1>2

(* The stop sequence is a list, and nothing else has changed.              *)
LEMMA NormaliseStopDomain ==
  ASSUME NEW ask, \A p \in DOMAIN ask : CanBeAsked(ask[p])
  PROVE  /\ DOMAIN NormaliseStop(ask) = DOMAIN ask
         /\ \A p \in DOMAIN ask : /\ CanBeAsked(NormaliseStop(ask)[p])
                                  /\ p = "stop" => NormaliseStop(ask)[p] # Text
<1>1. Text # List /\ CanBeAsked(List)
  BY DEF Text, List, CanBeAsked
<1> QED BY <1>1 DEF NormaliseStop

LEMMA InitInvariant == Init => IInv
<1> SUFFICES ASSUME Init PROVE IInv
  OBVIOUS
<1>1. Data
  BY DEF Init, Data
<1>2. Progress
  BY RowsDomain DEF Init, Progress
<1>3. Normalised
  BY ProviderRequestAssumption DEF Init, Normalised
<1> QED BY <1>1, <1>2, <1>3 DEF IInv

(* A row that runs keeps the shape of the request.                         *)
LEMMA PutsKeep ==
  ASSUME IInv, Mapping, NEW value, Put(rows[at].to, value)
  PROVE  /\ IInv' /\ rows' = rows
         /\ sent'[rows[at].to] = value
         /\ \A f \in Fields(rows) : f # rows[at].to => sent'[f] = sent[f]
<1>1. rows' = rows
  BY DEF Put, rows
<1>2. at \in DOMAIN rows /\ rows[at].to \in Fields(rows)
  BY DEF Mapping, Fields
<1>3. /\ sent'[rows[at].to] = value
      /\ \A f \in Fields(rows) : f # rows[at].to => sent'[f] = sent[f]
      /\ sent' = [f \in Fields(rows) |-> sent'[f]]
  BY <1>2 DEF Put, IInv, Data
<1>4. Data'
  BY <1>1, <1>3 DEF Put, IInv, Data
<1>5. Progress'
  BY <1>1, <1>2, RowsDomain DEF Put, Mapping, IInv, Data, Progress, rows, Rows
<1>6. Normalised'
  BY <1>2, RowsDomain DEF Put, Mapping, IInv, Data, Progress, Normalised
<1> QED BY <1>1, <1>3, <1>4, <1>5, <1>6 DEF IInv

LEMMA BeginKeeps == ASSUME IInv, Begin PROVE IInv' /\ rows' = rows
<1>1. rows' = rows
  BY DEF Begin, rows
<1>2. /\ DOMAIN params' = DOMAIN params
      /\ \A p \in DOMAIN params' :
           CanBeAsked(params'[p]) /\ (p = "stop" => params'[p] # Text)
  BY NormaliseStopDomain DEF Begin, IInv, Normalised
<1>3. Data'
  BY <1>1, <1>2 DEF Begin, IInv, Data
<1>4. Progress'
  BY <1>1, RowsDomain DEF Begin, IInv, Data, Progress
<1>5. Normalised'
  BY <1>2 DEF Normalised
<1> QED BY <1>1, <1>3, <1>4, <1>5 DEF IInv

LEMMA SkipKeeps == ASSUME IInv, Skip PROVE IInv' /\ rows' = rows
<1>1. rows' = rows
  BY DEF Skip, rows
<1>2. at \in DOMAIN rows
  BY DEF Skip, Mapping
<1>3. Data'
  BY <1>1 DEF Skip, IInv, Data
<1>4. Progress'
  BY <1>1, <1>2, RowsDomain DEF Skip, Mapping, IInv, Data, Progress, rows, Rows
<1>5. Normalised'
  BY <1>2, RowsDomain DEF Skip, IInv, Data, Progress, Normalised
<1> QED BY <1>1, <1>3, <1>4, <1>5 DEF IInv

LEMMA SendKeeps == ASSUME IInv, Send PROVE IInv' /\ rows' = rows
<1>1. rows' = rows
  BY DEF Send, rows
<1>2. Data' /\ Progress' /\ Normalised'
  BY <1>1, RowsDomain DEF Send, IInv, Data, Progress, Normalised
<1> QED BY <1>1, <1>2 DEF IInv

LEMMA StutterKeeps ==
  ASSUME IInv, UNCHANGED vars PROVE IInv' /\ rows' = rows
<1>1. rows' = rows
  BY DEF vars, rows
<1> QED BY <1>1 DEF vars, IInv, Data, Progress, Normalised

(* However a table is gone through, what is set in the request stays       *)
(* within what its rows and what was asked allow.                          *)
THEOREM Invariance == Spec => []IInv
<1>1. IInv /\ [Next]_vars => IInv'
  <2> SUFFICES ASSUME IInv, [Next]_vars PROVE IInv'
    OBVIOUS
  <2>1. CASE Begin
    BY <2>1, BeginKeeps
  <2>2. CASE PutSaid
    BY <2>2, PutsKeep DEF PutSaid
  <2>3. CASE PutDefault
    BY <2>3, PutsKeep DEF PutDefault
  <2>4. CASE Skip
    BY <2>4, SkipKeeps
  <2>5. CASE Send
    BY <2>5, SendKeeps
  <2>6. CASE UNCHANGED vars
    BY <2>6, StutterKeeps
  <2> QED BY <2>1, <2>2, <2>3, <2>4, <2>5, <2>6 DEF Next
<1> QED BY <1>1, InitInvariant, PTL DEF Spec

(* However long the table, it is gone through row by row and once, and no  *)
(* single stop sequence reaches a row.                                     *)
THEOREM TypeCorrect == Spec => []TypeOK
<1>1. IInv => TypeOK
  <2> SUFFICES ASSUME IInv PROVE TypeOK
    OBVIOUS
  <2>1. at \in 0 .. Len(rows) + 1
    BY RowsDomain DEF IInv, Data, Progress
  <2> QED BY <2>1 DEF IInv, Data, Normalised, TypeOK
<1> QED BY <1>1, Invariance, PTL

-----------------------------------------------------------------------------
(* An asked row takes its field over; a default leaves alone the fields    *)
(* that were asked, which is what NoLateDefault is for.                    *)
LEMMA PutSaidYields ==
  ASSUME IInv, AskedSoFar, PutSaid PROVE AskedSoFar'
<1>1. /\ at \in DOMAIN rows /\ at \in Nat
      /\ Said(rows[at], params)
      /\ at' = at + 1 /\ params' = params
  BY DEF PutSaid, Mapping, Put, IInv, Data
<1>2. /\ rows' = rows
      /\ sent'[rows[at].to] = getValue(rows[at], params)
      /\ \A f \in Fields(rows) : f # rows[at].to => sent'[f] = sent[f]
  BY PutsKeep DEF PutSaid
<1> SUFFICES ASSUME NEW i \in DOMAIN rows, i < at + 1, Said(rows[i], params)
             PROVE  \E j \in DOMAIN rows :
                      /\ j < at + 1 /\ rows[j].to = rows[i].to
                      /\ Said(rows[j], params)
                      /\ sent'[rows[i].to] = getValue(rows[j], params)
  BY <1>1, <1>2 DEF AskedSoFar, SetByAsked, Said
<1>3. CASE rows[i].to = rows[at].to
  BY <1>1, <1>2, <1>3
<1>4. CASE rows[i].to # rows[at].to
  <2>1. i < at /\ rows[i].to \in Fields(rows)
    BY <1>1, <1>4, RowsDomain DEF Fields
  <2>2. PICK j \in DOMAIN rows :
          /\ j < at /\ rows[j].to = rows[i].to /\ Said(rows[j], params)
          /\ sent[rows[i].to] = getValue(rows[j], params)
    BY <2>1 DEF AskedSoFar, SetByAsked
  <2> QED BY <1>1, <1>2, <1>4, <2>1, <2>2, RowsDomain
<1> QED BY <1>3, <1>4

LEMMA PutDefaultYields ==
  ASSUME IInv, AskedSoFar, PutDefault PROVE AskedSoFar'
<1>1. /\ at \in DOMAIN rows /\ at \in Nat
      /\ Defaulted(rows[at], params)
      /\ at' = at + 1 /\ params' = params
  BY DEF PutDefault, Mapping, Put, IInv, Data
<1>2. /\ rows' = rows
      /\ \A f \in Fields(rows) : f # rows[at].to => sent'[f] = sent[f]
  BY PutsKeep DEF PutDefault
<1> SUFFICES ASSUME NEW i \in DOMAIN rows, i < at + 1, Said(rows[i], params)
             PROVE  \E j \in DOMAIN rows :
                      /\ j < at + 1 /\ rows[j].to = rows[i].to
                      /\ Said(rows[j], params)
                      /\ sent'[rows[i].to] = getValue(rows[j], params)
  BY <1>1, <1>2 DEF AskedSoFar, SetByAsked, Said
<1>3. i < at /\ rows[i].to \in Fields(rows)
  <2>1. i # at
    BY <1>1 DEF Defaulted
  <2> QED BY <1>1, <2>1, RowsDomain DEF Fields
<1>4. rows[i].to # rows[at].to
  <2> SUFFICES ASSUME rows[i].to = rows[at].to PROVE FALSE
    OBVIOUS
  <2>1. table \in DOMAIN Tables /\ rows = Tables[table]
    BY <1>1, RowsDomain DEF IInv, Progress, rows, Rows
  <2>2. rows[i].of = rows[at].of
    BY <1>1, <1>3, <2>1, NoLateDefault DEF Defaulted
  <2> QED BY <1>1, <2>2 DEF Defaulted, Said
<1>5. PICK j \in DOMAIN rows :
        /\ j < at /\ rows[j].to = rows[i].to /\ Said(rows[j], params)
        /\ sent[rows[i].to] = getValue(rows[j], params)
  BY <1>3 DEF AskedSoFar, SetByAsked
<1> QED BY <1>1, <1>2, <1>3, <1>4, <1>5, RowsDomain

LEMMA OthersYield ==
  ASSUME IInv, AskedSoFar, Begin \/ Skip \/ Send \/ UNCHANGED vars
  PROVE  AskedSoFar'
<1>1. CASE Begin
  <2>1. at' = 0 \/ at' = 1
    BY <1>1 DEF Begin
  <2> QED BY <1>1, <2>1, BeginKeeps, RowsDomain DEF AskedSoFar
<1>2. CASE Skip
  <2>1. /\ at \in DOMAIN rows /\ at \in Nat /\ ~Said(rows[at], params)
        /\ at' = at + 1 /\ params' = params /\ sent' = sent /\ rows' = rows
    BY <1>2, SkipKeeps DEF Skip, Mapping, IInv, Data
  <2> SUFFICES ASSUME NEW i \in DOMAIN rows, i < at + 1, Said(rows[i], params)
               PROVE  \E j \in DOMAIN rows :
                        /\ j < at + 1 /\ rows[j].to = rows[i].to
                        /\ Said(rows[j], params)
                        /\ sent[rows[i].to] = getValue(rows[j], params)
    BY <2>1 DEF AskedSoFar, SetByAsked, Said
  <2>2. i # at
    BY <2>1
  <2>3. i < at
    BY <2>1, <2>2, RowsDomain
  <2>4. PICK j \in DOMAIN rows :
          /\ j < at /\ rows[j].to = rows[i].to /\ Said(rows[j], params)
          /\ sent[rows[i].to] = getValue(rows[j], params)
    BY <2>3 DEF AskedSoFar, SetByAsked
  <2> QED BY <2>1, <2>4, RowsDomain
<1>3. CASE Send \/ UNCHANGED vars
  <2>1. at' = at /\ params' = params /\ sent' = sent /\ rows' = rows
    BY <1>3, SendKeeps, StutterKeeps DEF Send, vars
  <2> QED BY <2>1 DEF AskedSoFar, SetByAsked, Said
<1> QED BY <1>1, <1>2, <1>3

(* For every table whose defaults come no later than the rows of other     *)
(* names, no default is sent for what the caller asked, in any field.      *)
THEOREM CallersWordStands == Spec => []DefaultsYield
<1>1. Init => AskedSoFar
  BY RowsDomain DEF Init, AskedSoFar
<1>2. IInv /\ AskedSoFar /\ [Next]_vars => AskedSoFar'
  BY PutSaidYields, PutDefaultYields, OthersYield DEF Next
<1>3. IInv /\ AskedSoFar => DefaultsYield
  <2> SUFFICES ASSUME IInv, AskedSoFar, outcome = "sent",
                      NEW i \in DOMAIN rows, rows[i].of \in DOMAIN asked
               PROVE  \E j \in DOMAIN rows :
                        /\ rows[j].to = rows[i].to
                        /\ rows[j].of \in DOMAIN asked
                        /\ sent[rows[i].to] = getValue(rows[j], params)
    BY DEF DefaultsYield
  <2>1. i < at /\ DOMAIN params = DOMAIN asked
    BY RowsDomain DEF IInv, Data, Progress
  <2> QED BY <2>1 DEF AskedSoFar, SetByAsked, Said
<1> QED BY <1>1, <1>2, <1>3, Invariance, PTL DEF Spec

-----------------------------------------------------------------------------
(* A field holds what the last of its rows to run has made, whether that   *)
(* row was asked or sets its default.                                      *)
Runs(j) == Said(rows[j], params) \/ Defaulted(rows[j], params)
Result(j) ==
  IF Said(rows[j], params) THEN getValue(rows[j], params)
  ELSE Default(rows[j], params)
LastSet(i, n) ==
  \E j \in Alike(rows, i) : j < n /\ Runs(j) /\ sent[rows[i].to] = Result(j)
SetSoFar == \A i \in DOMAIN rows : i < at /\ Runs(i) => LastSet(i, at)

(* The rows read what was asked, but for the stop sequence.                *)
AsAsked == \A p \in DOMAIN params : params[p] = asked[p] \/ params[p] = List

LEMMA PutIsLast ==
  ASSUME IInv, SetSoFar, PutSaid \/ PutDefault PROVE SetSoFar'
<1>1. PICK value : Put(rows[at].to, value) /\ value = Result(at) /\ Runs(at)
  BY DEF PutSaid, PutDefault, Result, Runs, Defaulted
<1>2. /\ Mapping /\ at \in DOMAIN rows /\ at \in Nat
      /\ at' = at + 1 /\ params' = params
  BY <1>1 DEF PutSaid, PutDefault, Mapping, Put, IInv, Data
<1>3. /\ rows' = rows
      /\ sent'[rows[at].to] = value
      /\ \A f \in Fields(rows) : f # rows[at].to => sent'[f] = sent[f]
  BY <1>1, <1>2, PutsKeep
<1>4. \A j : Runs(j)' = Runs(j) /\ Result(j)' = Result(j)
  BY <1>2, <1>3 DEF Runs, Result, Said, Defaulted, getValue, Default, Carried, Clamp
<1> SUFFICES ASSUME NEW i \in DOMAIN rows, i < at + 1, Runs(i)
             PROVE  \E j \in Alike(rows, i) :
                      j < at + 1 /\ Runs(j) /\ sent'[rows[i].to] = Result(j)
  BY <1>2, <1>3, <1>4 DEF SetSoFar, LastSet
<1>5. CASE rows[i].to = rows[at].to
  <2>1. at \in Alike(rows, i)
    BY <1>2, <1>5, RowsDomain DEF Alike
  <2> QED BY <1>1, <1>2, <1>3, <1>5, <2>1
<1>6. CASE rows[i].to # rows[at].to
  <2>1. i < at /\ rows[i].to \in Fields(rows)
    BY <1>2, <1>6, RowsDomain DEF Fields
  <2>2. PICK j \in Alike(rows, i) :
          j < at /\ Runs(j) /\ sent[rows[i].to] = Result(j)
    BY <2>1 DEF SetSoFar, LastSet
  <2>3. j < at + 1
    BY <1>2, <2>2, RowsDomain DEF Alike
  <2> QED BY <1>3, <1>6, <2>1, <2>2, <2>3
<1> QED BY <1>5, <1>6

LEMMA OthersLeaveLast ==
  ASSUME IInv, SetSoFar, Begin \/ Skip \/ Send \/ UNCHANGED vars PROVE SetSoFar'
<1>1. CASE Begin
  <2>1. at' = 0 \/ at' = 1
    BY <1>1 DEF Begin
  <2> QED BY <1>1, <2>1, BeginKeeps, RowsDomain DEF SetSoFar
<1>2. CASE Skip \/ Send \/ UNCHANGED vars
  <2>1. params' = params /\ sent' = sent /\ rows' = rows
    BY <1>2, SkipKeeps, SendKeeps, StutterKeeps DEF Skip, Send, vars
  <2>2. \A j : Runs(j)' = Runs(j) /\ Result(j)' = Result(j)
    BY <2>1 DEF Runs, Result, Said, Defaulted, getValue, Default, Carried, Clamp
  <2>3. at' = at \/ (at' = at + 1 /\ at \in DOMAIN rows /\ ~Runs(at))
    BY <1>2 DEF Skip, Send, vars, Mapping, Runs
  <2>4. at \in Nat
    BY DEF IInv, Data
  <2> SUFFICES ASSUME NEW i \in DOMAIN rows, i < at', Runs(i)
               PROVE  \E j \in Alike(rows, i) :
                        j < at' /\ Runs(j) /\ sent[rows[i].to] = Result(j)
    BY <2>1, <2>2 DEF SetSoFar, LastSet
  <2>5. i < at
    BY <2>3, <2>4, RowsDomain
  <2>6. PICK j \in Alike(rows, i) :
          j < at /\ Runs(j) /\ sent[rows[i].to] = Result(j)
    BY <2>5 DEF SetSoFar, LastSet
  <2>7. j < at'
    BY <2>3, <2>4, <2>6, RowsDomain DEF Alike
  <2> QED BY <2>6, <2>7
<1> QED BY <1>1, <1>2

LEMMA AskedStays ==
  ASSUME AsAsked, [Next]_vars PROVE AsAsked'
<1>1. params' = NormaliseStop(params) \/ params' = params
  BY DEF Next, Begin, PutSaid, PutDefault, Skip, Send, Put, vars
<1>2. asked' = asked
  BY DEF Next, Begin, PutSaid, PutDefault, Skip, Send, Put, vars
<1> QED BY <1>1, <1>2 DEF AsAsked, NormaliseStop

LEMMA LastSetCorrect == Spec => [](SetSoFar /\ AsAsked)
<1>1. Init => SetSoFar /\ AsAsked
  BY RowsDomain DEF Init, SetSoFar, AsAsked
<1>2. IInv /\ SetSoFar /\ [Next]_vars => SetSoFar'
  BY PutIsLast, OthersLeaveLast DEF Next
<1> QED BY <1>1, <1>2, AskedStays, Invariance, PTL DEF Spec

(* A parameter a transform reads is in what it makes, unless another name  *)
(* of it is preferred or it is a zero that is taken for unsaid.            *)
LEMMA ReadIsCarried ==
  ASSUME IInv, AsAsked, NEW j \in DOMAIN rows, NEW p \in DOMAIN asked,
         p \in rows[j].reads
  PROVE  \/ p \in Result(j).from
         \/ \E q \in DOMAIN asked : OtherName(p, q)
         \/ LostZero(p)
<1>1. DOMAIN params = DOMAIN asked
  BY DEF IInv, Data
<1>2. Result(j).from = Carried(rows[j], params)
  BY DEF Result, getValue, Default
<1>3. CASE p \in rows[j].truthy /\ params[p] = [is |-> "number", n |-> 0]
  <2>1. params[p] # List
    BY <1>3 DEF List
  <2> QED BY <1>1, <1>3, <2>1 DEF LostZero, AsAsked
<1>4. CASE ~(p \in rows[j].truthy /\ params[p] = [is |-> "number", n |-> 0])
  BY <1>1, <1>2, <1>4 DEF Carried, OtherName
<1> QED BY <1>3, <1>4

(* So it is where every later row of the field reads it: from a row that   *)
(* runs on, it is in the field that is sent.                               *)
LEMMA ReadReaches ==
  ASSUME IInv, AsAsked, SetSoFar, outcome = "sent",
         NEW i \in DOMAIN rows, Runs(i),
         NEW p \in DOMAIN asked, ReadFrom(rows, i, p)
  PROVE  \/ \E f \in Fields(rows) : p \in sent[f].from
         \/ \E q \in DOMAIN asked : OtherName(p, q)
         \/ LostZero(p)
<1>1. i < at
  BY RowsDomain DEF IInv, Data, Progress
<1>2. PICK j \in Alike(rows, i) : Runs(j) /\ sent[rows[i].to] = Result(j)
  BY <1>1 DEF SetSoFar, LastSet
<1>3. j \in DOMAIN rows /\ p \in rows[j].reads
  BY <1>2 DEF Alike, ReadFrom
<1>4. rows[i].to \in Fields(rows)
  BY DEF Fields
<1> QED BY <1>2, <1>3, <1>4, ReadIsCarried

(* A parameter with a row of its own is where every later row of its own   *)
(* in that field has it: one of another name is another name for it.       *)
LEMMA OwnReaches ==
  ASSUME IInv, AsAsked, SetSoFar, outcome = "sent",
         NEW p \in DOMAIN asked, NEW i \in DOMAIN rows, rows[i].of = p,
         \A j \in Alike(rows, i) :
           rows[j].of = p => rows[j].reads = {} \/ p \in rows[j].reads
  PROVE  \/ \E f \in Fields(rows) : p \in sent[f].from
         \/ \E q \in DOMAIN asked : OtherName(p, q)
         \/ LostZero(p)
<1>1. i < at /\ DOMAIN params = DOMAIN asked /\ Runs(i)
  BY RowsDomain DEF IInv, Data, Progress, Runs, Said
<1>2. PICK j \in Alike(rows, i) : Runs(j) /\ sent[rows[i].to] = Result(j)
  BY <1>1 DEF SetSoFar, LastSet
<1>3. j \in DOMAIN rows /\ rows[j].to = rows[i].to /\ j >= i
  BY <1>2 DEF Alike
<1>4. rows[i].to \in Fields(rows)
  BY DEF Fields
<1>5. CASE p \in rows[j].reads
  BY <1>2, <1>3, <1>4, <1>5, ReadIsCarried
<1>6. CASE p \notin rows[j].reads /\ rows[j].of = p
  <2>1. rows[j].reads = {}
    BY <1>2, <1>6
  <2>2. Said(rows[j], params)
    BY <1>1, <1>6 DEF Said
  <2>3. Result(j).from = {p}
    BY <1>6, <2>1, <2>2 DEF Result, getValue, Clamp
  <2> QED BY <1>2, <1>4, <2>3
<1>7. CASE p \notin rows[j].reads /\ rows[j].of # p
  <2>1. Said(rows[j], params)
    <3> SUFFICES ASSUME Defaulted(rows[j], params) PROVE FALSE
      BY <1>2 DEF Runs
    <3>1. table \in DOMAIN Tables /\ rows = Tables[table]
      BY <1>1, RowsDomain DEF IInv, Progress, Data, rows, Rows
    <3>2. i # j /\ i < j
      BY <1>3, <1>7, RowsDomain
    <3> QED BY <1>3, <1>7, <3>1, <3>2, NoLateDefault DEF Defaulted
  <2>2. rows[j].of \in DOMAIN asked
    BY <1>1, <2>1 DEF Said
  <2> QED BY <1>3, <1>7, <2>2 DEF OtherName
<1> QED BY <1>5, <1>6, <1>7

(* Whatever a caller says, in any combination, reaches the provider in     *)
(* some field if a row of the table speaks of it, or is lost in one of the *)
(* ways SaidReaches names: of any table that keeps to AllAreHeard.         *)
THEOREM CallersWordReaches == Spec => []SaidReaches
<1>1. IInv /\ AsAsked /\ SetSoFar => SaidReaches
  <2> SUFFICES ASSUME IInv, AsAsked, SetSoFar, outcome = "sent",
                      NEW p \in DOMAIN asked,
                      NEW r \in DOMAIN rows, Carries(rows[r], p)
               PROVE  \/ \E f \in Fields(rows) : p \in sent[f].from
                      \/ \E q \in DOMAIN asked : OtherName(p, q)
                      \/ LostZero(p)
                      \/ \E lost \in Unheard :
                           /\ lost.table = table /\ p \in lost.params
                           /\ lost.without \intersect DOMAIN asked = {}
    BY DEF SaidReaches
  <2>1. table \in DOMAIN Tables /\ rows = Tables[table]
    BY RowsDomain DEF IInv, Progress, Data, rows, Rows
  <2>2. p \in UNION {{rows[i].of} \union rows[i].reads : i \in DOMAIN rows}
    BY DEF Carries
  <2>3. \/ \E i \in DOMAIN rows :
             /\ rows[i].of = p
             /\ \A j \in Alike(rows, i) :
                  rows[j].of = p => rows[j].reads = {} \/ p \in rows[j].reads
        \/ \E i \in DOMAIN rows :
             rows[i].must /\ rows[i].default # None /\ ReadFrom(rows, i, p)
        \/ \E lost \in Unheard :
             /\ lost.table = table /\ p \in lost.params
             /\ \A q \in lost.without : \E i \in DOMAIN rows :
                  rows[i].of = q /\ ReadFrom(rows, i, p)
    BY <2>1, <2>2, AllAreHeard
  <2>4. DOMAIN params = DOMAIN asked
    BY DEF IInv, Data
  <2>5. ASSUME NEW i \in DOMAIN rows, rows[i].of = p,
               \A j \in Alike(rows, i) :
                 rows[j].of = p => rows[j].reads = {} \/ p \in rows[j].reads
        PROVE  \/ \E f \in Fields(rows) : p \in sent[f].from
               \/ \E q \in DOMAIN asked : OtherName(p, q)
               \/ LostZero(p)
    BY <2>5, OwnReaches
  <2>6. ASSUME NEW i \in DOMAIN rows, rows[i].must, rows[i].default # None,
               ReadFrom(rows, i, p)
        PROVE  \/ \E f \in Fields(rows) : p \in sent[f].from
               \/ \E q \in DOMAIN asked : OtherName(p, q)
               \/ LostZero(p)
    <3>1. Runs(i)
      BY <2>6 DEF Runs, Defaulted
    <3> QED BY <2>6, <3>1, ReadReaches
  <2>7. ASSUME NEW lost \in Unheard, NEW q \in lost.without \intersect DOMAIN asked,
               NEW i \in DOMAIN rows, rows[i].of = q, ReadFrom(rows, i, p)
        PROVE  \/ \E f \in Fields(rows) : p \in sent[f].from
               \/ \E w \in DOMAIN asked : OtherName(p, w)
               \/ LostZero(p)
    <3>1. Runs(i)
      BY <2>4, <2>7 DEF Runs, Said
    <3> QED BY <2>7, <3>1, ReadReaches
  <2> QED BY <2>3, <2>5, <2>6, <2>7
<1> QED BY <1>1, LastSetCorrect, Invariance, PTL

-----------------------------------------------------------------------------
(* The cardinality the answer counts by is the one of the library.         *)
LEMMA OneCardinality == \A S : Answer!Cardinality(S) = Cardinality(S)
BY DEF Answer!Cardinality, Cardinality

Place == Nat \X Nat
Before(p, S) == {q \in S : Answer!Earlier(q, p)}

(* A list of a set of pieces is in order: of each piece in it as many come *)
(* before as are earlier.                                                  *)
Lists(list, S) ==
  /\ list \in Seq(Place) /\ Len(list) = Cardinality(S)
  /\ \A n \in 1 .. Len(list) :
       list[n] \in S /\ Cardinality(Before(list[n], S)) = n - 1

LEMMA EarlierIsAnOrder ==
  ASSUME NEW p \in Place, NEW q \in Place
  PROVE  /\ ~Answer!Earlier(p, p)
         /\ Answer!Earlier(p, q) => ~Answer!Earlier(q, p)
         /\ p = q \/ Answer!Earlier(p, q) \/ Answer!Earlier(q, p)
         /\ \A r \in Place :
              Answer!Earlier(p, q) /\ Answer!Earlier(q, r) => Answer!Earlier(p, r)
BY DEF Answer!Earlier, Place

LEMMA NothingIsListed == Lists(<<>>, {})
BY FS_EmptySet DEF Lists

LEMMA AppendLists ==
  ASSUME NEW S \in SUBSET Place, IsFiniteSet(S), NEW list, Lists(list, S),
         NEW p \in Place, \A q \in S : Answer!Earlier(q, p)
  PROVE  Lists(Append(list, p), S \union {p})
<1> DEFINE longer == Append(list, p)
           all == S \union {p}
<1>1. p \notin S
  BY EarlierIsAnOrder
<1>2. /\ Cardinality(all) = Cardinality(S) + 1
      /\ Cardinality(S) \in Nat
  BY <1>1, FS_AddElement, FS_CardinalityType
<1>3. /\ list \in Seq(Place) /\ Len(list) = Cardinality(S)
      /\ \A n \in 1 .. Len(list) :
           list[n] \in S /\ Cardinality(Before(list[n], S)) = n - 1
  BY DEF Lists
<1>4. /\ longer \in Seq(Place) /\ Len(longer) = Len(list) + 1
      /\ \A n \in 1 .. Len(list) : longer[n] = list[n]
      /\ longer[Len(list) + 1] = p
  BY <1>3
<1> HIDE DEF longer
<1>5. ASSUME NEW n \in 1 .. Len(longer)
      PROVE  longer[n] \in all /\ Cardinality(Before(longer[n], all)) = n - 1
  <2>1. CASE n <= Len(list)
    <3>1. longer[n] = list[n] /\ n \in 1 .. Len(list)
      BY <1>2, <1>3, <1>4, <2>1
    <3>2. list[n] \in S
      BY <1>3, <3>1
    <3>3. ~Answer!Earlier(p, list[n])
      BY <3>2, EarlierIsAnOrder
    <3>4. Before(list[n], all) = Before(list[n], S)
      BY <3>3 DEF Before
    <3> QED BY <1>3, <3>1, <3>2, <3>4
  <2>2. CASE n = Len(list) + 1
    <3>1. Before(p, all) = S
      BY EarlierIsAnOrder DEF Before
    <3> QED BY <1>2, <1>3, <1>4, <2>2, <3>1
  <2> QED BY <1>2, <1>3, <1>4, <2>1, <2>2
<1> QED BY <1>2, <1>3, <1>4, <1>5 DEF Lists, longer

(* So there is one list of a set: that of its pieces by their number.      *)
LEMMA RanksDiffer ==
  ASSUME NEW S \in SUBSET Place, IsFiniteSet(S), NEW p \in S, NEW q \in S, p # q
  PROVE  Cardinality(Before(p, S)) # Cardinality(Before(q, S))
<1>1. ASSUME NEW r \in S, NEW t \in S, Answer!Earlier(r, t)
      PROVE  Cardinality(Before(r, S)) # Cardinality(Before(t, S))
  <2>1. /\ Before(r, S) \subseteq Before(t, S)
        /\ r \in Before(t, S) /\ r \notin Before(r, S)
    BY <1>1, EarlierIsAnOrder DEF Before
  <2>2. IsFiniteSet(Before(t, S))
    BY FS_Subset DEF Before
  <2>3. /\ Cardinality(Before(r, S)) \in Nat /\ Cardinality(Before(t, S)) \in Nat
        /\ Cardinality(Before(r, S)) <= Cardinality(Before(t, S))
        /\ Cardinality(Before(r, S)) = Cardinality(Before(t, S))
             => Before(r, S) = Before(t, S)
    BY <2>1, <2>2, FS_Subset, FS_CardinalityType
  <2> QED BY <2>1, <2>3
<1>2. Answer!Earlier(p, q) \/ Answer!Earlier(q, p)
  BY EarlierIsAnOrder
<1> QED BY <1>1, <1>2

LEMMA ListedOnce ==
  ASSUME NEW S \in SUBSET Place, IsFiniteSet(S), NEW list, Lists(list, S)
  PROVE  list = [n \in 1 .. Cardinality(S) |->
                   CHOOSE p \in S : Cardinality(Before(p, S)) = n - 1]
<1>1. ASSUME NEW n \in 1 .. Cardinality(S)
      PROVE  list[n] = CHOOSE p \in S : Cardinality(Before(p, S)) = n - 1
  <2>1. list[n] \in S /\ Cardinality(Before(list[n], S)) = n - 1
    BY DEF Lists
  <2>2. \A p \in S : Cardinality(Before(p, S)) = n - 1 => p = list[n]
    BY <2>1, RanksDiffer
  <2> QED BY <2>1, <2>2
<1>2. list = [n \in 1 .. Cardinality(S) |-> list[n]]
  BY DEF Lists
<1> QED BY <1>1, <1>2

-----------------------------------------------------------------------------
Row == entry.chunks
Flowing == answer \in {"streaming", "ended"}

InMessage ==
  /\ message \in Seq(Answer!Kinds)
  /\ Answer!CanSay(message) /\ reason \in Answer!CanStopFor(message)
  /\ pieces \in [DOMAIN message -> Nat]
  /\ \A b \in DOMAIN message : pieces[b] <= Answer!Length(b)
  /\ ends \in 0 .. Len(Answer!Ending)
  /\ ends > 0 => \A b \in DOMAIN message : Answer!Complete(b)
  /\ answer = "ended" => ends = Len(Answer!Ending)

(* Two blocks are under way together only if both are calls of OpenAI's    *)
(* dialect, and what comes first has begun first.                          *)
Beside(b, c) ==
  /\ Answer!dialect = "chat" /\ message[b] = "call" /\ message[c] = "call"
  /\ pieces[c] > 0
InTurn ==
  \A b, c \in DOMAIN message :
    pieces[b] > 0 /\ c < b => Answer!Complete(c) \/ Beside(b, c)

PieceSent(b) ==
  /\ pieces' = [pieces EXCEPT ![b] = @ + 1]
  /\ UNCHANGED <<entry, strict, lone, message, reason, ends, answer>>

(* Only a call may come in one piece.                                      *)
LEMMA LengthOfBlock ==
  ASSUME NEW b \in DOMAIN message
  PROVE  /\ Answer!Length(b) \in {1, 2}
         /\ message[b] # "call" => Answer!Length(b) = 2
BY DEF Answer!Length

LEMMA BlocksAreNumbered ==
  ASSUME InMessage
  PROVE  /\ DOMAIN message = 1 .. Len(message) /\ Len(message) \in Nat
         /\ \A b \in DOMAIN message : b \in Nat /\ b >= 1
         /\ \A b \in DOMAIN message : message[b] \in Answer!Kinds
BY DEF InMessage

(* A piece may be sent only where the blocks before it are done, or are    *)
(* calls under way beside it: the turns are kept.                          *)
LEMMA PieceIsNext ==
  ASSUME InMessage, InTurn, NEW b \in DOMAIN message,
         Answer!CanSend(b), PieceSent(b)
  PROVE  /\ ends = 0 /\ pieces[b] \in Nat /\ pieces[b] < Answer!Length(b)
         /\ pieces'[b] = pieces[b] + 1
         /\ \A c \in DOMAIN message : c # b => pieces'[c] = pieces[c]
         /\ \A c \in DOMAIN message :
              c < b => Answer!Complete(c) \/ Beside(b, c)
         /\ \A c \in DOMAIN message :
              b < c /\ pieces[c] > 0 => Beside(c, b)
         /\ InMessage' /\ InTurn'
<1>1. /\ pieces \in [DOMAIN message -> Nat] /\ ends \in Nat
      /\ \A c \in DOMAIN message : pieces[c] \in Nat /\ pieces[c] <= Answer!Length(c)
      /\ \A c \in DOMAIN message : c \in Nat /\ c >= 1
  BY BlocksAreNumbered DEF InMessage
<1>2. ~Answer!Complete(b) /\ pieces[b] < Answer!Length(b)
  BY <1>1, LengthOfBlock DEF Answer!CanSend, Answer!Complete
<1>3. ends = 0
  BY <1>1, <1>2 DEF InMessage
<1>4. /\ pieces'[b] = pieces[b] + 1
      /\ \A c \in DOMAIN message : c # b => pieces'[c] = pieces[c]
      /\ pieces' \in [DOMAIN message -> Nat]
  BY <1>1 DEF PieceSent
<1>5. ASSUME NEW c \in DOMAIN message, c < b
      PROVE  Answer!Complete(c) \/ Beside(b, c)
  <2>1. c \in 1 .. b - 1
    BY <1>1, <1>5
  <2>2. \/ Answer!Complete(c)
        \/ /\ Answer!dialect = "chat"
           /\ {message[b], message[c]} = {"call"} /\ pieces[c] > 0
    BY <2>1 DEF Answer!CanSend
  <2>3. {message[b], message[c]} = {"call"} =>
          message[b] = "call" /\ message[c] = "call"
    OBVIOUS
  <2> QED BY <2>2, <2>3 DEF Beside
<1>6. ASSUME NEW c \in DOMAIN message, b < c, pieces[c] > 0
      PROVE  Beside(c, b)
  BY <1>2, <1>6 DEF InTurn
<1>7. \A c \in DOMAIN message :
        /\ Answer!Length(c)' = Answer!Length(c)
        /\ c # b => (Answer!Complete(c)' <=> Answer!Complete(c))
  BY <1>4 DEF PieceSent, Answer!Length, Answer!Complete, Answer!dialect
<1>8. InMessage'
  <2>1. /\ message' = message /\ reason' = reason /\ ends' = ends /\ answer' = answer
        /\ Answer!Ending' = Answer!Ending
        /\ Answer!CanSay(message)' = Answer!CanSay(message)
        /\ Answer!CanStopFor(message)' = Answer!CanStopFor(message)
    BY DEF PieceSent, Answer!Ending, Answer!CanSay, Answer!CanStopFor, Answer!dialect
  <2>2. \A c \in DOMAIN message : pieces'[c] <= Answer!Length(c)'
    BY <1>1, <1>2, <1>4, <1>7, LengthOfBlock
  <2> QED BY <1>3, <1>4, <2>1, <2>2 DEF InMessage
<1>9. InTurn'
  <2> SUFFICES ASSUME NEW d \in DOMAIN message, NEW c \in DOMAIN message,
                      pieces'[d] > 0, c < d
               PROVE  Answer!Complete(c)' \/ Beside(d, c)'
    BY DEF InTurn, PieceSent
  <2>1. Beside(d, c) => Beside(d, c)'
    BY <1>1, <1>4 DEF Beside, PieceSent, Answer!dialect
  <2>2. CASE d = b
    BY <1>1, <1>5, <1>7, <2>1, <2>2
  <2>3. CASE d # b /\ c # b
    BY <1>4, <1>7, <2>1, <2>3 DEF InTurn
  <2>4. CASE d # b /\ c = b
    BY <1>4, <1>6, <2>1, <2>4
  <2> QED BY <2>2, <2>3, <2>4
<1> QED BY <1>1, <1>2, <1>3, <1>4, <1>5, <1>6, <1>8, <1>9

-----------------------------------------------------------------------------
(* The pieces of a kind that have been sent.                               *)
Sent(kind) == {p \in Answer!Pieces(kind) : p[2] <= pieces[p[1]]}

(* The pieces of a message are finitely many.                              *)
LEMMA PiecesAreFinite ==
  ASSUME InMessage, NEW kind
  PROVE  /\ Answer!Pieces(kind) \in SUBSET Place /\ IsFiniteSet(Answer!Pieces(kind))
         /\ Sent(kind) \in SUBSET Place /\ IsFiniteSet(Sent(kind))
<1>1. IsFiniteSet(DOMAIN message) /\ IsFiniteSet({1, 2})
  <2>1. IsFiniteSet({1, 2})
    <3>1. {1, 2} = {1} \union {2}
      OBVIOUS
    <3>2. IsFiniteSet({1})
      BY FS_Singleton
    <3>3. IsFiniteSet({1} \union {2})
      BY <3>2, FS_AddElement
    <3> QED BY <3>1, <3>3
  <2> QED BY <2>1, BlocksAreNumbered, FS_Interval
<1>2. IsFiniteSet((DOMAIN message) \X {1, 2})
  BY <1>1, FS_Product
<1>3. Answer!Pieces(kind) \subseteq (DOMAIN message) \X {1, 2}
  BY DEF Answer!Pieces, Answer!Blocks
<1>4. (DOMAIN message) \X {1, 2} \subseteq Place
  BY BlocksAreNumbered DEF Place
<1>5. Sent(kind) \subseteq Answer!Pieces(kind)
  BY DEF Sent
<1> QED BY <1>2, <1>3, <1>4, <1>5, FS_Subset

(* The pieces sent, at the start and when every block is complete.         *)
LEMMA NothingSent ==
  ASSUME InMessage, NEW kind, \A b \in DOMAIN message : pieces[b] = 0
  PROVE  Sent(kind) = {}
BY DEF Sent, Answer!Pieces, Answer!Blocks

LEMMA AllSent ==
  ASSUME InMessage, NEW kind, kind # "call",
         \A b \in DOMAIN message : Answer!Complete(b)
  PROVE  Sent(kind) = Answer!Pieces(kind)
BY LengthOfBlock DEF Sent, Answer!Pieces, Answer!Blocks, Answer!Complete

(* A piece of thought or text comes after every one of its kind sent       *)
(* before, though blocks of other kinds lie between.                       *)
LEMMA PieceIsSent ==
  ASSUME InMessage, InTurn, NEW b \in DOMAIN message, NEW kind, kind # "call",
         Answer!CanSend(b), PieceSent(b)
  PROVE  /\ message[b] # kind => Sent(kind)' = Sent(kind)
         /\ message[b] = kind =>
              /\ Sent(kind)' = Sent(kind) \union {<<b, pieces[b] + 1>>}
              /\ <<b, pieces[b] + 1>> \in Place
              /\ \A q \in Sent(kind) : Answer!Earlier(q, <<b, pieces[b] + 1>>)
<1> DEFINE piece == <<b, pieces[b] + 1>>
<1>1. /\ pieces[b] \in Nat /\ pieces[b] < Answer!Length(b)
      /\ pieces'[b] = pieces[b] + 1
      /\ \A c \in DOMAIN message : c # b => pieces'[c] = pieces[c]
      /\ \A c \in DOMAIN message : b < c /\ pieces[c] > 0 => Beside(c, b)
  BY PieceIsNext
<1>2. Answer!Pieces(kind)' = Answer!Pieces(kind)
  BY DEF PieceSent, Answer!Pieces, Answer!Blocks
<1>3. \A p \in Answer!Pieces(kind) :
        /\ p = <<p[1], p[2]>> /\ p[1] \in DOMAIN message /\ p[2] \in {1, 2}
        /\ message[p[1]] = kind
  BY DEF Answer!Pieces, Answer!Blocks
<1>4. ASSUME message[b] # kind PROVE Sent(kind)' = Sent(kind)
  <2>1. \A p \in Answer!Pieces(kind) : pieces'[p[1]] = pieces[p[1]]
    BY <1>1, <1>3, <1>4
  <2> QED BY <1>2, <2>1 DEF Sent
<1>5. ASSUME message[b] = kind
      PROVE  /\ Sent(kind)' = Sent(kind) \union {piece}
             /\ piece \in Place
             /\ \A q \in Sent(kind) : Answer!Earlier(q, piece)
  <2>1. piece \in Answer!Pieces(kind)
    BY <1>1, <1>5, LengthOfBlock DEF Answer!Pieces, Answer!Blocks
  <2>2. \A p \in Answer!Pieces(kind) :
          p[2] <= pieces'[p[1]] <=> p[2] <= pieces[p[1]] \/ p = piece
    BY <1>1, <1>3
  <2>3. Sent(kind)' = Sent(kind) \union {piece}
    BY <1>2, <2>1, <2>2 DEF Sent
  <2>4. ASSUME NEW q \in Sent(kind) PROVE Answer!Earlier(q, piece)
    <3>1. /\ q[1] \in DOMAIN message /\ q[2] \in {1, 2} /\ message[q[1]] = kind
          /\ q[2] <= pieces[q[1]] /\ pieces[q[1]] \in Nat
      BY <1>3 DEF Sent, InMessage
    <3>2. ~(b < q[1])
      BY <1>1, <1>5, <3>1 DEF Beside
    <3>3. q[1] \in Nat /\ b \in Nat
      BY <3>1, BlocksAreNumbered
    <3> QED BY <1>1, <3>1, <3>2, <3>3 DEF Answer!Earlier
  <2>5. piece \in Place
    BY <1>1, BlocksAreNumbered DEF Place
  <2> QED BY <2>3, <2>4, <2>5
<1> QED BY <1>4, <1>5

-----------------------------------------------------------------------------
(* The calls named so far, and the number each has.                        *)
Calls == Answer!CallsOf(message)
Named == {b \in Calls : pieces[b] > 0}
Rank(b) == Answer!Ordinal(message, b)
CallsBefore(b) == {c \in Answer!CallsOf(message) : c < b}

CallsCounted ==
  /\ counted.calls = Cardinality(Named)
  /\ DOMAIN counted.of = Named
  /\ \A b \in Named : counted.of[b] = Rank(b) /\ Rank(b) < Cardinality(Named)
  /\ \A n \in 0 .. Cardinality(Named) - 1 : \E b \in Named : Rank(b) = n

NumbersAgree ==
  \/ Row.numbers = "byBlock"
  \/ Row.numbers = "said" /\ Answer!dialect = "chat"
  \/ Row.numbers = "latest" /\ Answer!dialect # "chat"

(* The calls of a message are finitely many, and the rank of each is its   *)
(* own.                                                                    *)
LEMMA CallsAreFinite ==
  ASSUME InMessage
  PROVE  /\ Calls \subseteq DOMAIN message /\ IsFiniteSet(Calls)
         /\ IsFiniteSet(Named) /\ Cardinality(Named) \in Nat
         /\ \A b : IsFiniteSet(CallsBefore(b))
         /\ \A b : Rank(b) = Cardinality(CallsBefore(b)) /\ Rank(b) \in Nat
         /\ \A b \in Calls : b \in Nat /\ message[b] = "call"
<1>1. IsFiniteSet(DOMAIN message)
  BY BlocksAreNumbered, FS_Interval
<1>2. Calls \subseteq DOMAIN message
  BY DEF Calls, Answer!CallsOf
<1>3. IsFiniteSet(Calls) /\ IsFiniteSet(Named)
  BY <1>1, <1>2, FS_Subset DEF Named
<1>4. ASSUME NEW b
      PROVE  /\ IsFiniteSet(CallsBefore(b)) /\ Rank(b) = Cardinality(CallsBefore(b))
             /\ Rank(b) \in Nat
  <2>1. IsFiniteSet(CallsBefore(b))
    BY <1>3, FS_Subset DEF CallsBefore, Calls
  <2>2. Rank(b) = Cardinality(CallsBefore(b))
    <3>1. Rank(b) = Answer!Cardinality(CallsBefore(b))
      BY DEF Rank, Answer!Ordinal, CallsBefore
    <3> QED BY <3>1, OneCardinality
  <2> QED BY <2>1, <2>2, FS_CardinalityType
<1>5. \A b \in Calls : b \in Nat /\ message[b] = "call"
  BY <1>2, BlocksAreNumbered DEF Calls, Answer!CallsOf
<1> QED BY <1>2, <1>3, <1>4, <1>5, FS_CardinalityType

LEMMA RanksOfCallsDiffer ==
  ASSUME InMessage, NEW b \in Calls, NEW c \in Calls, b # c
  PROVE  Rank(b) # Rank(c)
<1>1. ASSUME NEW d \in Calls, NEW e \in Calls, d < e
      PROVE  Rank(d) # Rank(e)
  <2>1. /\ CallsBefore(d) \subseteq CallsBefore(e)
        /\ d \in CallsBefore(e) /\ d \notin CallsBefore(d)
    BY <1>1, CallsAreFinite DEF CallsBefore, Calls
  <2>2. Cardinality(CallsBefore(d)) = Cardinality(CallsBefore(e))
          => CallsBefore(d) = CallsBefore(e)
    BY <2>1, CallsAreFinite, FS_Subset
  <2> QED BY <2>1, <2>2, CallsAreFinite
<1>2. b < c \/ c < b
  BY CallsAreFinite
<1> QED BY <1>1, <1>2

(* Calls are named in their order: those named are the ones before the     *)
(* next.  Outside OpenAI's dialect the one under way is the last of them.  *)
LEMMA NamedInTurn ==
  ASSUME InMessage, InTurn, NEW b \in Calls, Answer!CanSend(b), PieceSent(b)
  PROVE  /\ pieces[b] = 0 => Named = CallsBefore(b)
         /\ Answer!dialect # "chat" /\ pieces[b] > 0 =>
              Named = CallsBefore(b) \union {b}
         /\ Calls' = Calls /\ Named' = Named \union {b}
         /\ \A c : Rank(c)' = Rank(c)
<1>1. b \in DOMAIN message /\ message[b] = "call"
  BY CallsAreFinite
<1>2. /\ pieces[b] \in Nat /\ pieces[b] < Answer!Length(b)
      /\ pieces'[b] = pieces[b] + 1
      /\ \A c \in DOMAIN message : c # b => pieces'[c] = pieces[c]
      /\ \A c \in DOMAIN message :
           c < b => Answer!Complete(c) \/ Beside(b, c)
      /\ \A c \in DOMAIN message :
           b < c /\ pieces[c] > 0 => Beside(c, b)
  BY <1>1, PieceIsNext
<1>3. ASSUME NEW c \in Calls
      PROVE  /\ c \in DOMAIN message /\ c \in Nat /\ b \in Nat
             /\ c < b => c \in Named
             /\ c \in Named /\ b < c =>
                  Answer!dialect = "chat" /\ pieces[b] > 0
  <2>1. c \in DOMAIN message /\ c \in Nat /\ b \in Nat
    BY CallsAreFinite
  <2>2. c < b => pieces[c] > 0
    BY <1>2, <2>1, LengthOfBlock DEF Beside, Answer!Complete
  <2> QED BY <1>2, <2>1, <2>2 DEF Named, Beside
<1>4. CallsBefore(b) \subseteq Named
  BY <1>3 DEF CallsBefore, Calls
<1>5. ASSUME pieces[b] = 0 PROVE Named \subseteq CallsBefore(b)
  BY <1>3, <1>5 DEF CallsBefore, Named, Calls
<1>6. ASSUME Answer!dialect # "chat", pieces[b] > 0
      PROVE  Named = CallsBefore(b) \union {b}
  BY <1>3, <1>4, <1>6 DEF CallsBefore, Named, Calls
<1>7. Calls' = Calls
  BY DEF Calls, Answer!CallsOf, PieceSent
<1>8. Named' = Named \union {b}
  BY <1>2, <1>3, <1>7 DEF Named
<1>9. \A c : Rank(c)' = Rank(c)
  BY DEF Rank, Answer!Ordinal, Answer!CallsOf, PieceSent
<1> QED BY <1>4, <1>5, <1>6, <1>7, <1>8, <1>9

(* So the count of the stream's state is the rank of the call just named,  *)
(* and a number told in any way that agrees is the rank of its call.       *)
LEMMA CallIsCounted ==
  ASSUME InMessage, InTurn, CallsCounted, NEW b \in Calls,
         Answer!CanSend(b), PieceSent(b), counted' = Answer!Count(b)
  PROVE  /\ CallsCounted'
         /\ Rank(b) = IF pieces[b] = 0 THEN Cardinality(Named) ELSE Rank(b)
         /\ NumbersAgree => Answer!Number(b, Row, Answer!Count(b)) = Rank(b)
<1>1. /\ b \in DOMAIN message /\ message[b] = "call"
      /\ pieces[b] \in Nat
      /\ IsFiniteSet(Named) /\ Cardinality(Named) \in Nat
      /\ IsFiniteSet(CallsBefore(b)) /\ Rank(b) = Cardinality(CallsBefore(b))
      /\ Rank(b) \in Nat
  BY CallsAreFinite DEF InMessage
<1>2. /\ pieces[b] = 0 => Named = CallsBefore(b)
      /\ Answer!dialect # "chat" /\ pieces[b] > 0 =>
           Named = CallsBefore(b) \union {b}
      /\ Named' = Named \union {b}
      /\ \A c : Rank(c)' = Rank(c)
  BY NamedInTurn
<1>3. pieces[b] = 0 => Rank(b) = Cardinality(Named) /\ b \notin Named
  BY <1>1, <1>2 DEF Named
<1>4. CASE pieces[b] = 0
  <2>1. /\ counted'.calls = Cardinality(Named) + 1
        /\ DOMAIN counted'.of = Named \union {b}
        /\ counted'.of[b] = Cardinality(Named)
        /\ \A c \in Named : counted'.of[c] = Rank(c)
    BY <1>1, <1>3, <1>4 DEF Answer!Count, CallsCounted
  <2>2. Cardinality(Named \union {b}) = Cardinality(Named) + 1
    BY <1>1, <1>3, <1>4, FS_AddElement
  <2>3. \A n \in 0 .. Cardinality(Named') - 1 : \E c \in Named' : Rank(c)' = n
    <3> SUFFICES ASSUME NEW n \in 0 .. Cardinality(Named)
                 PROVE  \E c \in Named \union {b} : Rank(c) = n
      BY <1>1, <1>2, <2>2
    <3>1. CASE n = Cardinality(Named)
      BY <1>3, <1>4, <3>1
    <3>2. CASE n # Cardinality(Named)
      BY <1>1, <3>2 DEF CallsCounted
    <3> QED BY <3>1, <3>2
  <2>4. CallsCounted'
    <3>1. ASSUME NEW c \in Named \union {b}
          PROVE  counted'.of[c] = Rank(c) /\ Rank(c) < Cardinality(Named) + 1
      <4>1. CASE c = b
        BY <1>1, <1>3, <1>4, <2>1, <4>1
      <4>2. CASE c \in Named
        BY <1>1, <2>1, <4>2, CallsAreFinite DEF CallsCounted
      <4> QED BY <4>1, <4>2
    <3> QED BY <1>2, <2>1, <2>2, <2>3, <3>1 DEF CallsCounted
  <2>5. /\ Answer!Count(b).calls = Cardinality(Named) + 1
        /\ Answer!Count(b).of[b] = Cardinality(Named)
    BY <2>1
  <2>6. NumbersAgree => Answer!Number(b, Row, Answer!Count(b)) = Rank(b)
    BY <1>1, <1>3, <1>4, <2>5 DEF NumbersAgree, Answer!Number, Rank
  <2> QED BY <1>3, <1>4, <2>4, <2>6
<1>5. CASE pieces[b] > 0
  <2>1. b \in Named /\ Named' = Named
    BY <1>2, <1>5 DEF Named
  <2>2. Answer!Count(b) = counted
    BY <1>1, <1>5 DEF Answer!Count
  <2>3. CallsCounted'
    BY <1>2, <2>1, <2>2 DEF CallsCounted
  <2>4. Answer!dialect # "chat" => Cardinality(Named) = Rank(b) + 1
    <3>1. b \notin CallsBefore(b)
      BY <1>1, BlocksAreNumbered DEF CallsBefore, Calls
    <3> QED BY <1>1, <1>2, <1>5, <3>1, FS_AddElement
  <2>5. counted.of[b] = Rank(b) /\ counted.calls = Cardinality(Named)
    BY <2>1 DEF CallsCounted
  <2>6. NumbersAgree => Answer!Number(b, Row, counted) = Rank(b)
    BY <1>1, <2>4, <2>5 DEF NumbersAgree, Answer!Number, Rank
  <2> QED BY <1>5, <2>2, <2>3, <2>6
<1> QED BY <1>1, <1>4, <1>5

-----------------------------------------------------------------------------
(* What the caller has been told of the pieces sent so far.                *)
FieldsTold ==
  {"thought", "text", "calls", "finish", "usage", "done", "late", "strays", "parted"}
ToldIsWhole == DOMAIN told = FieldsTold

ThoughtTold ==
  Lists(told.thought,
        IF Answer!ReasoningKept(Row, strict) THEN Sent("thought") ELSE {})
TextTold ==
  Lists(told.text, IF "text" \in Row.keeps THEN Sent("text") ELSE {})

PiecesUpTo(b, n) == [i \in 1 .. n |-> <<b, i>>]
NumberedAsNamed ==
  /\ told.calls = [n \in 0 .. Cardinality(Named) - 1 |-> told.calls[n]]
  /\ \A b \in Named : told.calls[Rank(b)] = PiecesUpTo(b, pieces[b])
CallsTold ==
  /\ "calls" \in Row.keeps /\ NumbersAgree => NumberedAsNamed
  /\ "calls" \notin Row.keeps \/ Named = {} => told.calls = <<>>

(* What a stream tells is told in the one choice unless the row numbers    *)
(* choices, and no stream puts a line between two texts.                   *)
StraysTold ==
  /\ told.parted = FALSE
  /\ Row.choice = "first" => told.strays = FALSE

(* A piece of a call is put behind those of its number.                    *)
PutCall(n, piece) ==
  [m \in DOMAIN told.calls \union {n} |->
     IF m \notin DOMAIN told.calls THEN <<piece>>
     ELSE IF m = n THEN Append(told.calls[m], piece) ELSE told.calls[m]]

PieceTold(b, new) ==
  LET piece == <<b, pieces[b] + 1>>
  IN  /\ DOMAIN new = FieldsTold
      /\ new.thought = IF message[b] = "thought" /\ Answer!ReasoningKept(Row, strict)
                       THEN Append(told.thought, piece) ELSE told.thought
      /\ new.text = IF message[b] = "text" /\ "text" \in Row.keeps
                    THEN Append(told.text, piece) ELSE told.text
      /\ new.calls = IF message[b] = "call" /\ "calls" \in Row.keeps
                     THEN PutCall(Answer!Number(b, Row, Answer!Count(b)), piece)
                     ELSE told.calls
      /\ new.finish = told.finish /\ new.usage = told.usage
      /\ new.parted = told.parted

(* What one piece tells.                                                   *)
LEMMA PieceIsTold ==
  ASSUME ToldIsWhole, NEW b \in DOMAIN message
  PROVE  LET new == Answer!TellPiece(b, Row, Answer!Count(b))
         IN  PieceTold(b, new) /\ new.done = told.done /\ new.late = told.late
<1> DEFINE new == Answer!TellPiece(b, Row, Answer!Count(b))
           piece == <<b, pieces[b] + 1>>
           n == Answer!Number(b, Row, Answer!Count(b))
<1>1. CASE message[b] = "thought" /\ Answer!ReasoningKept(Row, strict)
  <2>1. new = [told EXCEPT !.thought = Append(@, piece)]
    BY <1>1 DEF Answer!TellPiece
  <2> QED BY <1>1, <2>1 DEF PieceTold, ToldIsWhole, FieldsTold
<1>2. CASE message[b] = "text" /\ "text" \in Row.keeps
  <2>1. new = [told EXCEPT !.text = Append(@, piece)]
    BY <1>2 DEF Answer!TellPiece
  <2> QED BY <1>2, <2>1 DEF PieceTold, ToldIsWhole, FieldsTold
<1>3. CASE message[b] = "call" /\ "calls" \in Row.keeps
  <2>1. new = [told EXCEPT !.calls = PutCall(n, piece)]
    BY <1>3 DEF Answer!TellPiece, PutCall
  <2> QED BY <1>3, <2>1 DEF PieceTold, ToldIsWhole, FieldsTold
<1>4. CASE /\ ~(message[b] = "thought" /\ Answer!ReasoningKept(Row, strict))
           /\ ~(message[b] = "text" /\ "text" \in Row.keeps)
           /\ ~(message[b] = "call" /\ "calls" \in Row.keeps)
  <2>1. new = told
    BY <1>4 DEF Answer!TellPiece
  <2> QED BY <1>4, <2>1 DEF PieceTold, ToldIsWhole, FieldsTold
<1> QED BY <1>1, <1>2, <1>3, <1>4

LEMMA InOneChoice ==
  ASSUME NEW b, NEW new, Row.choice = "first", told.strays = FALSE
  PROVE  (told.strays \/ Answer!Strays(b, new, Row)) = FALSE
<1>1. Row.choice # "asNumbered"
  OBVIOUS
<1>2. ~Answer!Strays(b, new, Row)
  BY <1>1, Zenon DEF Answer!Strays
<1> QED BY <1>2, Zenon

(* Nothing but [DONE] is told beside it.                                   *)
LEMMA SentPieceIsTold ==
  ASSUME ToldIsWhole, NEW b \in DOMAIN message, Answer!SendPiece(b)
  PROVE  /\ PieceTold(b, told')
         /\ Row.done # "each" => told'.done = told.done
         /\ told.done = 0 /\ ~told.late => ~told'.late
         /\ StraysTold => StraysTold'
<1> DEFINE piece == Answer!TellPiece(b, Row, Answer!Count(b))
           new == Answer!TellDone(piece, {}, Row)
<1>1. told' = [new EXCEPT !.late = told.late \/ (told.done > 0 /\ new # told),
                         !.strays = told.strays \/ Answer!Strays(b, new, Row)]
  BY DEF Answer!SendPiece, Answer!Tell, Row
<1>2. PieceTold(b, piece) /\ piece.done = told.done
  BY PieceIsTold
<1> HIDE DEF piece
<1>3. new = piece \/ new = [piece EXCEPT !.done = @ + 1]
  BY DEF Answer!TellDone
<1>4. Row.done # "each" => new = piece
  BY DEF Answer!TellDone, Answer!TellsDone
<1> HIDE DEF new
<1>5. PieceTold(b, new)
  BY <1>2, <1>3 DEF PieceTold, FieldsTold
<1>6. PieceTold(b, told')
  BY <1>1, <1>5 DEF PieceTold, FieldsTold
<1>7. DOMAIN new = FieldsTold
  BY <1>5 DEF PieceTold
<1>8. /\ told'.done = new.done
      /\ told'.late = (told.late \/ (told.done > 0 /\ new # told))
      /\ told'.strays = (told.strays \/ Answer!Strays(b, new, Row))
  BY <1>1, <1>7 DEF FieldsTold
<1>9. ASSUME told.done = 0, ~told.late PROVE ~told'.late
  <2>1. ~(told.done > 0)
    BY <1>9
  <2> QED BY <1>8, <1>9, <2>1, Zenon
<1>10. Row' = Row
  BY DEF Answer!SendPiece, Answer!Fixed, Row
<1>11. ASSUME StraysTold PROVE StraysTold'
  <2>1. told'.parted = FALSE
    BY <1>6, <1>11 DEF PieceTold, StraysTold
  <2>2. ASSUME Row.choice = "first" PROVE told'.strays = FALSE
    BY <1>8, <1>11, <2>2, InOneChoice DEF StraysTold
  <2> QED BY <1>10, <2>1, <2>2 DEF StraysTold
<1> QED BY <1>2, <1>4, <1>6, <1>8, <1>9, <1>11

LEMMA PiecesGrow ==
  ASSUME NEW b, NEW n \in Nat
  PROVE  /\ Append(PiecesUpTo(b, n), <<b, n + 1>>) = PiecesUpTo(b, n + 1)
         /\ <<<<b, 1>>>> = PiecesUpTo(b, 1)
<1>1. PiecesUpTo(b, n) \in Seq({b} \X Nat) /\ Len(PiecesUpTo(b, n)) = n
  BY DEF PiecesUpTo
<1> QED BY <1>1 DEF PiecesUpTo

(* With each piece the reasoning and the text told stay lists of what was  *)
(* sent of them.                                                           *)
LEMMA ListsGo ==
  ASSUME InMessage, InTurn, ToldIsWhole, NEW b \in DOMAIN message,
         Answer!CanSend(b), PieceSent(b), PieceTold(b, told')
  PROVE  /\ ThoughtTold => ThoughtTold'
         /\ TextTold => TextTold'
<1> DEFINE piece == <<b, pieces[b] + 1>>
<1>1. /\ Row' = Row
      /\ Answer!ReasoningKept(Row, strict)' = Answer!ReasoningKept(Row, strict)
  BY DEF PieceSent, Row
<1>2. ASSUME NEW kind, kind # "call", NEW list, Lists(list, Sent(kind))
      PROVE  /\ message[b] = kind => Lists(Append(list, piece), Sent(kind)')
             /\ message[b] # kind => Lists(list, Sent(kind)')
  <2>1. /\ message[b] # kind => Sent(kind)' = Sent(kind)
        /\ message[b] = kind =>
             /\ Sent(kind)' = Sent(kind) \union {piece} /\ piece \in Place
             /\ \A q \in Sent(kind) : Answer!Earlier(q, piece)
    BY <1>2, PieceIsSent
  <2>2. Sent(kind) \in SUBSET Place /\ IsFiniteSet(Sent(kind))
    BY PiecesAreFinite
  <2> QED BY <1>2, <2>1, <2>2, AppendLists
<1>3. ASSUME ThoughtTold PROVE ThoughtTold'
  <2>1. CASE Answer!ReasoningKept(Row, strict)
    <3>1. Lists(told.thought, Sent("thought"))
      BY <1>3, <2>1 DEF ThoughtTold
    <3> QED BY <1>1, <1>2, <2>1, <3>1 DEF ThoughtTold, PieceTold
  <2>2. CASE ~Answer!ReasoningKept(Row, strict)
    BY <1>1, <1>3, <2>2 DEF ThoughtTold, PieceTold
  <2> QED BY <2>1, <2>2
<1>4. ASSUME TextTold PROVE TextTold'
  <2>1. CASE "text" \in Row.keeps
    <3>1. Lists(told.text, Sent("text"))
      BY <1>4, <2>1 DEF TextTold
    <3> QED BY <1>1, <1>2, <2>1, <3>1 DEF TextTold, PieceTold
  <2>2. CASE "text" \notin Row.keeps
    BY <1>1, <1>4, <2>2 DEF TextTold, PieceTold
  <2> QED BY <2>1, <2>2
<1> QED BY <1>3, <1>4

(* With each piece every call keeps its own number and its own pieces,     *)
(* though others are under way.                                            *)
LEMMA CallsGo ==
  ASSUME InMessage, InTurn, CallsCounted, CallsTold, NEW b \in DOMAIN message,
         Answer!CanSend(b), PieceSent(b), PieceTold(b, told'),
         counted' = Answer!Count(b)
  PROVE  CallsCounted' /\ CallsTold'
<1>1. /\ Row' = Row /\ (NumbersAgree' <=> NumbersAgree)
  BY DEF PieceSent, Row, NumbersAgree, Answer!dialect
<1>2. /\ pieces[b] \in Nat /\ pieces'[b] = pieces[b] + 1
      /\ \A c \in DOMAIN message : c # b => pieces'[c] = pieces[c]
  BY PieceIsNext
<1>3. CASE message[b] # "call"
  <2>1. b \notin Calls
    BY <1>3, CallsAreFinite
  <2>2. /\ Calls' = Calls /\ Named' = Named
        /\ \A c : Rank(c)' = Rank(c)
        /\ \A c \in Named : pieces'[c] = pieces[c]
    <3>1. Calls' = Calls
      BY DEF PieceSent, Calls, Answer!CallsOf
    <3>2. \A c \in Calls : pieces'[c] = pieces[c]
      BY <1>2, <2>1, CallsAreFinite
    <3>3. \A c : Rank(c)' = Rank(c)
      BY DEF PieceSent, Rank, Answer!Ordinal, Answer!CallsOf
    <3> QED BY <3>1, <3>2, <3>3 DEF Named
  <2>3. counted' = counted /\ told'.calls = told.calls
    BY <1>3 DEF Answer!Count, PieceTold
  <2>4. CallsCounted'
    BY <2>2, <2>3 DEF CallsCounted
  <2>5. CallsTold'
    BY <1>1, <2>2, <2>3 DEF CallsTold, NumberedAsNamed
  <2> QED BY <2>4, <2>5
<1>4. CASE message[b] = "call"
  <2>1. b \in Calls
    BY <1>4 DEF Calls, Answer!CallsOf
  <2>2. /\ CallsCounted'
        /\ pieces[b] = 0 => Rank(b) = Cardinality(Named)
        /\ NumbersAgree => Answer!Number(b, Row, Answer!Count(b)) = Rank(b)
    BY <2>1, CallIsCounted
  <2>3. /\ Named' = Named \union {b} /\ Calls' = Calls
        /\ \A c : Rank(c)' = Rank(c)
    BY <2>1, NamedInTurn
  <2>4. CASE "calls" \notin Row.keeps
    BY <1>1, <2>2, <2>3, <2>4 DEF CallsTold, PieceTold
  <2>5. CASE "calls" \in Row.keeps /\ ~NumbersAgree
    BY <1>1, <2>2, <2>3, <2>5 DEF CallsTold
  <2>6. CASE "calls" \in Row.keeps /\ NumbersAgree
    <3>1. told'.calls = PutCall(Rank(b), <<b, pieces[b] + 1>>)
      BY <1>4, <2>2, <2>6 DEF PieceTold
    <3>2. /\ DOMAIN told.calls = 0 .. Cardinality(Named) - 1
          /\ \A c \in Named : told.calls[Rank(c)] = PiecesUpTo(c, pieces[c])
      BY <2>6 DEF CallsTold, NumberedAsNamed
    <3>3. /\ Cardinality(Named) \in Nat /\ Rank(b) \in Nat
          /\ IsFiniteSet(Named) /\ Named \subseteq Calls
          /\ Calls \subseteq DOMAIN message
      BY CallsAreFinite DEF Named
    <3>4. \A c \in Named :
            /\ c # b => Rank(c) # Rank(b)
            /\ Rank(c) \in DOMAIN told.calls
      <4>1. ASSUME NEW c \in Named, c # b
            PROVE  Rank(c) # Rank(b)
        BY <2>1, <3>3, <4>1, RanksOfCallsDiffer
      <4>2. ASSUME NEW c \in Named
            PROVE  Rank(c) \in 0 .. Cardinality(Named) - 1
        BY <3>3, CallsAreFinite DEF CallsCounted
      <4> QED BY <3>2, <4>1, <4>2
    <3>5. DOMAIN told'.calls = DOMAIN told.calls \union {Rank(b)}
      BY <3>1 DEF PutCall
    <3>6. told'.calls = [m \in DOMAIN told'.calls |-> told'.calls[m]]
      BY <3>1 DEF PutCall
    <3>7. ASSUME NEW c \in Named, c # b
          PROVE  told'.calls[Rank(c)] = PiecesUpTo(c, pieces'[c])
      <4>1. told'.calls[Rank(c)] = told.calls[Rank(c)]
        BY <3>1, <3>4, <3>7 DEF PutCall
      <4>2. pieces'[c] = pieces[c]
        BY <1>2, <3>3, <3>7
      <4> QED BY <3>2, <4>1, <4>2
    <3>8. CASE pieces[b] = 0
      <4>1. b \notin Named /\ Rank(b) = Cardinality(Named)
        BY <2>2, <3>8 DEF Named
      <4>2. Cardinality(Named') = Cardinality(Named) + 1
        BY <2>3, <3>3, <4>1, FS_AddElement
      <4>3. told'.calls[Rank(b)] = <<<<b, 1>>>>
        BY <3>1, <3>2, <3>3, <3>8, <4>1 DEF PutCall
      <4>4. told'.calls[Rank(b)] = PiecesUpTo(b, pieces'[b])
        BY <1>2, <3>8, <4>3, PiecesGrow
      <4>5. DOMAIN told'.calls = 0 .. Cardinality(Named') - 1
        BY <3>2, <3>3, <3>5, <4>1, <4>2
      <4>6. NumberedAsNamed'
        BY <2>3, <3>6, <3>7, <4>4, <4>5 DEF NumberedAsNamed
      <4> QED BY <1>1, <2>2, <2>3, <2>6, <4>6 DEF CallsTold
    <3>9. CASE pieces[b] > 0
      <4>1. b \in Named /\ Named' = Named
        BY <2>1, <2>3, <3>9 DEF Named
      <4>2. Rank(b) \in DOMAIN told.calls
        BY <3>4, <4>1
      <4>3. told'.calls[Rank(b)] = Append(told.calls[Rank(b)], <<b, pieces[b] + 1>>)
        BY <3>1, <4>2 DEF PutCall
      <4>4. told'.calls[Rank(b)] = PiecesUpTo(b, pieces'[b])
        BY <1>2, <3>2, <4>1, <4>3, PiecesGrow
      <4>5. DOMAIN told'.calls = 0 .. Cardinality(Named') - 1
        BY <3>2, <3>5, <4>1, <4>2
      <4>6. NumberedAsNamed'
        BY <2>3, <3>6, <3>7, <4>1, <4>4, <4>5 DEF NumberedAsNamed
      <4> QED BY <1>1, <2>2, <2>3, <2>6, <4>1, <4>6 DEF CallsTold
    <3> QED BY <1>2, <3>8, <3>9
  <2> QED BY <2>2, <2>4, <2>5, <2>6
<1> QED BY <1>3, <1>4

-----------------------------------------------------------------------------
(* What the ends of the stream sent so far have told.                      *)
TellingEnds == Answer!Told(entry, lone)
SaidBy(what) == \E j \in 1 .. ends : j \in TellingEnds /\ what \in Answer!Ending[j]
TripsOn(end) == Answer!TripsUp(Answer!dialect, end, Row)

FinishIsTold ==
  Row.tells # "finishAndUsage" =>
    told.finish =
      IF Row.tells \in {"finish", "usage"} /\ SaidBy(Row.tells)
      THEN Answer!FinishTold(Row.finish, reason, strict, Calls # {})
      ELSE Answer!NoReason
UsageIsTold ==
  /\ told.usage \in BOOLEAN
  /\ told.usage <=> "usage" \in Row.keeps /\ SaidBy("usage")

OnceAt(j) ==
  /\ Row.done # "each" /\ j \in TellingEnds
  /\ Answer!TellsDone(Answer!Ending[j], Row)
  /\ \A k \in TellingEnds \ {j} : ~Answer!TellsDone(Answer!Ending[k], Row)
  /\ \A k \in TellingEnds : k > j => Answer!Ending[k] = {"done"}
DoneIsTold ==
  \A j \in TellingEnds :
    OnceAt(j) => told.done = (IF j <= ends THEN 1 ELSE 0) /\ ~told.late

NothingTripped == \A j \in 1 .. ends : ~TripsOn(Answer!Ending[j])

(* Every dialect ends its streams in at least one chunk.                   *)
LEMMA EndingIsFinite ==
  /\ Len(Answer!Ending) \in Nat \ {0} /\ DOMAIN Answer!Ending = 1 .. Len(Answer!Ending)
  /\ TellingEnds \subseteq 1 .. Len(Answer!Ending)
  /\ \A j \in 1 .. Len(Answer!Ending) :
       j \in TellingEnds <=> ~Answer!Drops(Answer!dialect, Answer!Ending[j], Row)
<1>1. ASSUME NEW speaks, NEW alone
      PROVE  /\ Len(Answer!EndingOf(speaks, alone)) \in Nat \ {0}
             /\ DOMAIN Answer!EndingOf(speaks, alone)
                  = 1 .. Len(Answer!EndingOf(speaks, alone))
  <2> DEFINE list == Answer!EndingOf(speaks, alone)
  <2>1. \/ list = <<{"finish", "usage"}, {"done"}>>
        \/ list = <<{"finish"}, {"usage"}, {"done"}>>
        \/ list = <<{"finish"}, {"usage"}>>
        \/ list = <<{"done"}>> \/ list = <<{"finish"}>>
        \/ list = <<{"finish", "usage"}>>
    BY DEF Answer!EndingOf
  <2> HIDE DEF list
  <2>2. Len(list) \in Nat \ {0} /\ DOMAIN list = 1 .. Len(list)
    BY <2>1
  <2> QED BY <2>2 DEF list
<1>2. Answer!Ending = Answer!EndingOf(Answer!dialect, lone)
  BY DEF Answer!Ending
<1>3. TellingEnds = {j \in DOMAIN Answer!Ending :
                       ~Answer!Drops(Answer!dialect, Answer!Ending[j], Row)}
  BY DEF TellingEnds, Answer!Told, Answer!Ending, Answer!dialect, Row
<1> QED BY <1>1, <1>2, <1>3

(* What one end tells.                                                     *)
EndTold(end, called) ==
  /\ DOMAIN told' = FieldsTold
  /\ told'.thought = told.thought /\ told'.text = told.text
  /\ told'.calls = told.calls
  /\ Row.tells # "finishAndUsage" =>
       told'.finish = IF Row.tells \in {"finish", "usage"} /\ Row.tells \in end
                      THEN Answer!FinishTold(Row.finish, reason, strict, called)
                      ELSE told.finish
  /\ told'.usage = IF "usage" \in end /\ "usage" \in Row.keeps THEN TRUE ELSE told.usage
  /\ told'.done = IF Answer!TellsDone(end, Row) THEN told.done + 1 ELSE told.done
  /\ told'.parted = told.parted

(* The provider's own [DONE], not passed on.                               *)
EndsAfter(end) == end = {"done"} /\ ~Answer!TellsDone(end, Row)

(* An end tells what it holds, and nothing behind a [DONE] unless it is    *)
(* told after one.                                                         *)
LEMMA EndIsTold ==
  ASSUME ToldIsWhole, NEW b, NEW end,
         Answer!Tell(b, Answer!TellDone(Answer!TellUsage(
           Answer!TellFinish(told, end, Row), end, Row), end, Row))
  PROVE  /\ EndTold(end, counted.calls > 0)
         /\ ~told.late /\ (told.done = 0 \/ EndsAfter(end))
              => ~told'.late
         /\ Row.choice = "first" /\ told.strays = FALSE => told'.strays = FALSE
<1> DEFINE finished == Answer!TellFinish(told, end, Row)
           used == Answer!TellUsage(finished, end, Row)
           new == Answer!TellDone(used, end, Row)
           said == Answer!FinishTold(Row.finish, reason, strict, counted.calls > 0)
<1>1. told' = [new EXCEPT !.late = told.late \/ (told.done > 0 /\ new # told),
                         !.strays = told.strays \/ Answer!Strays(b, new, Row)]
  BY DEF Answer!Tell, Row
<1>2. /\ \/ finished = told
         \/ finished = [told EXCEPT !.finish = said]
         \/ finished = [told EXCEPT !.finish = Answer!Reason("stop")]
      /\ Row.tells # "finishAndUsage" =>
           finished = IF Row.tells \in {"finish", "usage"} /\ Row.tells \in end
                      THEN [told EXCEPT !.finish = said] ELSE told
      /\ end = {"done"} => finished = told
  BY DEF Answer!TellFinish
<1> HIDE DEF finished, said
<1>3. /\ DOMAIN finished = FieldsTold
      /\ finished.thought = told.thought /\ finished.text = told.text
      /\ finished.calls = told.calls /\ finished.usage = told.usage
      /\ finished.done = told.done /\ finished.parted = told.parted
      /\ Row.tells # "finishAndUsage" =>
           finished.finish = IF Row.tells \in {"finish", "usage"} /\ Row.tells \in end
                             THEN said ELSE told.finish
  BY <1>2 DEF ToldIsWhole, FieldsTold
<1>4. /\ used = IF "usage" \in end /\ "usage" \in Row.keeps
                THEN [finished EXCEPT !.usage = TRUE] ELSE finished
      /\ end = {"done"} => used = finished
  BY DEF Answer!TellUsage
<1> HIDE DEF used
<1>5. /\ DOMAIN used = FieldsTold
      /\ used.thought = told.thought /\ used.text = told.text
      /\ used.calls = told.calls /\ used.finish = finished.finish
      /\ used.done = told.done /\ used.parted = told.parted
      /\ used.usage = IF "usage" \in end /\ "usage" \in Row.keeps
                     THEN TRUE ELSE told.usage
  BY <1>3, <1>4 DEF FieldsTold
<1>6. new = IF Answer!TellsDone(end, Row) THEN [used EXCEPT !.done = @ + 1] ELSE used
  BY DEF Answer!TellDone
<1> HIDE DEF new
<1>7. /\ DOMAIN new = FieldsTold
      /\ new.thought = told.thought /\ new.text = told.text
      /\ new.calls = told.calls /\ new.finish = finished.finish
      /\ new.usage = used.usage /\ new.parted = told.parted
      /\ new.done = IF Answer!TellsDone(end, Row) THEN told.done + 1 ELSE told.done
  BY <1>5, <1>6 DEF FieldsTold
<1>8. /\ DOMAIN told' = FieldsTold
      /\ told'.thought = new.thought /\ told'.text = new.text
      /\ told'.calls = new.calls /\ told'.finish = new.finish
      /\ told'.usage = new.usage /\ told'.done = new.done
      /\ told'.late = (told.late \/ (told.done > 0 /\ new # told))
      /\ told'.strays = (told.strays \/ Answer!Strays(b, new, Row))
      /\ told'.parted = new.parted
  BY <1>1, <1>7 DEF FieldsTold
<1>9. EndTold(end, counted.calls > 0)
  BY <1>3, <1>5, <1>7, <1>8 DEF EndTold, said
<1>10. ASSUME told.done = 0 \/ EndsAfter(end), ~told.late
       PROVE  ~told'.late
  <2>1. CASE told.done = 0
    <3>1. ~(told.done > 0)
      BY <2>1
    <3> QED BY <1>8, <1>10, <3>1, Zenon
  <2>2. CASE EndsAfter(end)
    <3>1. new = told
      BY <1>2, <1>4, <1>6, <2>2 DEF EndsAfter
    <3> QED BY <1>8, <1>10, <3>1, Zenon
  <2> QED BY <1>10, <2>1, <2>2
<1>11. ASSUME Row.choice = "first", told.strays = FALSE
       PROVE  told'.strays = FALSE
  BY <1>8, <1>11, InOneChoice
<1> QED BY <1>9, <1>10, <1>11

-----------------------------------------------------------------------------
(* A message of which every block was sent has all of its calls counted.   *)
LEMMA CompleteCalls ==
  ASSUME InMessage, CallsCounted, \A b \in DOMAIN message : Answer!Complete(b)
  PROVE  Named = Calls /\ (counted.calls > 0) = (Calls # {})
<1>1. \A b \in Calls : pieces[b] > 0
  BY CallsAreFinite, LengthOfBlock DEF Answer!Complete
<1>2. Named = Calls
  BY <1>1 DEF Named
<1>3. counted.calls = Cardinality(Calls) /\ Cardinality(Calls) \in Nat
  BY <1>2, CallsAreFinite DEF CallsCounted
<1>4. Cardinality(Calls) = 0 <=> Calls = {}
  BY CallsAreFinite, FS_EmptySet
<1>5. counted.calls > 0 <=> Calls # {}
  BY <1>3, <1>4
<1> QED BY <1>2, <1>5

EndSent ==
  /\ ends' = ends + 1
  /\ UNCHANGED <<entry, strict, lone, message, reason, pieces, counted, answer>>

(* With each end that trips nothing, the reason, the counts and [DONE] are *)
(* told of the ends so far and of no others.                               *)
LEMMA EndsGo ==
  ASSUME InMessage, CallsCounted, ToldIsWhole,
         FinishIsTold, UsageIsTold, DoneIsTold, NothingTripped,
         answer = "streaming", ends < Len(Answer!Ending),
         \A b \in DOMAIN message : Answer!Complete(b),
         EndSent, ~TripsOn(Answer!Ending[ends + 1]),
         Answer!Tell(Len(message),
           IF Answer!Drops(Answer!dialect, Answer!Ending[ends + 1], Row) THEN told
           ELSE Answer!TellDone(Answer!TellUsage(
                  Answer!TellFinish(told, Answer!Ending[ends + 1], Row),
                  Answer!Ending[ends + 1], Row), Answer!Ending[ends + 1], Row))
  PROVE  /\ InMessage' /\ ToldIsWhole'
         /\ told'.thought = told.thought /\ told'.text = told.text
         /\ told'.calls = told.calls
         /\ FinishIsTold' /\ UsageIsTold' /\ DoneIsTold' /\ NothingTripped'
         /\ StraysTold => StraysTold'
<1> DEFINE end == Answer!Ending[ends + 1]
           next == ends + 1
<1>1. /\ ends \in Nat /\ next \in 1 .. Len(Answer!Ending)
      /\ next \in TellingEnds <=> ~Answer!Drops(Answer!dialect, end, Row)
      /\ 1 .. ends' = (1 .. ends) \union {next}
  BY EndingIsFinite DEF InMessage, EndSent
<1>2. /\ Answer!Ending' = Answer!Ending /\ Row' = Row /\ TellingEnds' = TellingEnds
      /\ Calls' = Calls /\ reason' = reason /\ strict' = strict
      /\ Answer!dialect' = Answer!dialect
  BY DEF EndSent, Answer!Ending, Row, TellingEnds, Calls, Answer!CallsOf,
         Answer!dialect
<1>3. \A what : SaidBy(what)' <=> SaidBy(what) \/ (next \in TellingEnds /\ what \in end)
  BY <1>1, <1>2 DEF SaidBy
<1>4. InMessage'
  <2>1. \A b \in DOMAIN message : /\ Answer!Length(b)' = Answer!Length(b)
                                  /\ Answer!Complete(b)'
    BY DEF EndSent, Answer!Length, Answer!Complete, Answer!dialect
  <2>2. /\ Answer!CanSay(message)' = Answer!CanSay(message)
        /\ Answer!CanStopFor(message)' = Answer!CanStopFor(message)
    BY DEF EndSent, Answer!CanSay, Answer!CanStopFor, Answer!dialect
  <2> QED BY <1>1, <1>2, <2>1, <2>2 DEF InMessage, EndSent
<1>5. NothingTripped'
  <2>1. ASSUME NEW j \in 1 .. ends' PROVE ~TripsOn(Answer!Ending[j])'
    <3>1. TripsOn(Answer!Ending[j])' = TripsOn(Answer!Ending[j])
      BY DEF TripsOn, EndSent, Answer!dialect, Row, Answer!Ending
    <3>2. j \in 1 .. ends \/ j = next
      BY <1>1
    <3> QED BY <3>1, <3>2 DEF NothingTripped
  <2> QED BY <2>1 DEF NothingTripped
<1>6. CASE Answer!Drops(Answer!dialect, end, Row)
  <2>1. told' = [told EXCEPT
                   !.late = told.late \/ (told.done > 0 /\ told # told),
                   !.strays = told.strays \/ Answer!Strays(Len(message), told, Row)]
    BY <1>6 DEF Answer!Tell, Row
  <2>2. /\ DOMAIN told' = FieldsTold
        /\ told'.thought = told.thought /\ told'.text = told.text
        /\ told'.calls = told.calls /\ told'.finish = told.finish
        /\ told'.usage = told.usage /\ told'.done = told.done
        /\ told'.parted = told.parted
        /\ told'.strays =
             (told.strays \/ Answer!Strays(Len(message), told, Row))
    BY <2>1 DEF ToldIsWhole, FieldsTold
  <2>3. told'.late = (told.late \/ (told.done > 0 /\ told # told))
    BY <2>1 DEF ToldIsWhole, FieldsTold
  <2>4. ~told.late => ~told'.late
    BY <2>3, Zenon
  <2>5. next \notin TellingEnds
    BY <1>1, <1>6
  <2>6. \A what : SaidBy(what)' <=> SaidBy(what)
    BY <1>3, <2>5
  <2>7. FinishIsTold'
    BY <1>2, <2>2, <2>6 DEF FinishIsTold
  <2>8. UsageIsTold'
    BY <1>2, <2>2, <2>6 DEF UsageIsTold
  <2>9. DoneIsTold'
    <3> SUFFICES ASSUME NEW j, OnceAt(j)'
                 PROVE  told'.done = (IF j <= ends' THEN 1 ELSE 0) /\ ~told'.late
      BY DEF DoneIsTold
    <3>1. OnceAt(j)
      BY <1>2 DEF OnceAt
    <3>2. j \in TellingEnds /\ j \in Nat /\ j # next
      BY <2>5, <3>1, EndingIsFinite DEF OnceAt
    <3>3. j <= ends' <=> j <= ends
      BY <1>1, <3>2 DEF EndSent
    <3> QED BY <2>2, <2>4, <3>1, <3>2, <3>3 DEF DoneIsTold
  <2>10. StraysTold => StraysTold'
    BY <1>2, <2>2, InOneChoice DEF StraysTold
  <2> QED BY <1>4, <1>5, <2>2, <2>7, <2>8, <2>9, <2>10 DEF ToldIsWhole
<1>7. CASE ~Answer!Drops(Answer!dialect, end, Row)
  <2>1. Answer!Tell(Len(message), Answer!TellDone(Answer!TellUsage(
          Answer!TellFinish(told, end, Row), end, Row), end, Row))
    BY <1>7
  <2>2. /\ EndTold(end, counted.calls > 0)
        /\ ~told.late /\ (told.done = 0 \/ EndsAfter(end))
             => ~told'.late
        /\ Row.choice = "first" /\ told.strays = FALSE => told'.strays = FALSE
    BY <2>1, EndIsTold
  <2>3. EndTold(end, Calls # {})
    BY <2>2, CompleteCalls
  <2>4. next \in TellingEnds
    BY <1>1, <1>7
  <2>5. \A what : SaidBy(what)' <=> SaidBy(what) \/ what \in end
    BY <1>3, <2>4
  <2>6. FinishIsTold'
    BY <1>2, <2>3, <2>5 DEF FinishIsTold, EndTold
  <2>7. UsageIsTold'
    BY <1>2, <2>3, <2>5 DEF UsageIsTold, EndTold
  <2>8. DoneIsTold'
    <3> SUFFICES ASSUME NEW j, OnceAt(j)'
                 PROVE  told'.done = (IF j <= ends' THEN 1 ELSE 0) /\ ~told'.late
      BY DEF DoneIsTold
    <3>1. OnceAt(j)
      BY <1>2 DEF OnceAt
    <3>2. j \in TellingEnds /\ j \in Nat
      BY <3>1, EndingIsFinite DEF OnceAt
    <3>3. told.done = (IF j <= ends THEN 1 ELSE 0) /\ ~told.late
      BY <3>1, <3>2 DEF DoneIsTold
    <3>4. told'.done = IF Answer!TellsDone(end, Row) THEN told.done + 1 ELSE told.done
      BY <2>3 DEF EndTold
    <3>5. CASE j = next
      BY <1>1, <2>2, <3>1, <3>3, <3>4, <3>5 DEF OnceAt, EndSent
    <3>6. CASE j < next
      <4>1. EndsAfter(end) /\ ~Answer!TellsDone(end, Row)
        BY <1>1, <2>4, <3>1, <3>2, <3>6 DEF OnceAt, EndsAfter
      <4> QED BY <1>1, <2>2, <3>2, <3>3, <3>4, <3>6, <4>1 DEF EndSent
    <3>7. CASE j > next
      <4>1. ~Answer!TellsDone(end, Row)
        BY <1>1, <2>4, <3>1, <3>2, <3>7 DEF OnceAt
      <4> QED BY <1>1, <2>2, <3>2, <3>3, <3>4, <3>7, <4>1 DEF EndSent
    <3> QED BY <1>1, <3>2, <3>5, <3>6, <3>7
  <2>9. StraysTold => StraysTold'
    BY <1>2, <2>2, <2>3 DEF StraysTold, EndTold
  <2> QED BY <1>4, <1>5, <2>3, <2>6, <2>7, <2>8, <2>9 DEF ToldIsWhole, EndTold
<1> QED BY <1>6, <1>7

-----------------------------------------------------------------------------
(* What holds of a stream under way, and of one that has ended.            *)
StreamIsTold ==
  /\ InMessage /\ InTurn /\ ToldIsWhole /\ ThoughtTold /\ TextTold
  /\ CallsCounted /\ CallsTold
  /\ FinishIsTold /\ UsageIsTold /\ DoneIsTold /\ NothingTripped
  /\ StraysTold

Waits == answer \in {"none", "streamed", "whole", "array"}

(* The entry is one of the catalogue, and how it answers is what its       *)
(* address and its table allow.                                            *)
EntryIsServed ==
  answer # "none" =>
    /\ entry \in Catalogue /\ strict \in BOOLEAN /\ lone \in MayBeLone(entry)
    /\ answer \in {"streamed", "streaming", "ended", "cut"} => MayStream(entry)
    /\ answer \in {"array", "misread"} =>
         entry.fn \in Streamed /\ entry.at.streams = "json"

AnswerInv ==
  /\ EntryIsServed
  /\ Waits => Answer!Waiting
  /\ Flowing => StreamIsTold
  /\ answer = "cut" => Answer!Breaks(entry, lone)

(* A stream that opens has told nothing of its message.                    *)
LEMMA OpenStarts ==
  ASSUME AnswerInv, Answer!Open PROVE AnswerInv'
<1>1. /\ answer = "streamed" /\ answer' = "streaming"
      /\ message' \in Messages /\ Answer!CanSay(message')
      /\ reason' \in Answer!CanStopFor(message')
      /\ pieces' = [b \in DOMAIN message' |-> 0]
      /\ entry' = entry /\ strict' = strict /\ lone' = lone
      /\ ends' = ends /\ counted' = counted /\ told' = told
  BY DEF Answer!Open, Answer!Fixed
<1>2. /\ ends = 0 /\ counted = Answer!NoneCounted /\ told = Answer!NothingTold
  BY <1>1 DEF AnswerInv, Waits, Answer!Waiting
<1>3. EntryIsServed'
  BY <1>1 DEF AnswerInv, EntryIsServed
<1>4. message' \in Seq(Answer!Kinds)
  BY <1>1, MessagesAssumption
<1>5. InMessage'
  <2>1. /\ Answer!CanSay(message)'
        /\ reason' \in Answer!CanStopFor(message)'
    BY <1>1 DEF Answer!CanSay, Answer!dialect, Answer!CanStopFor
  <2>2. /\ pieces' \in [DOMAIN message' -> Nat]
        /\ \A b \in DOMAIN message' : pieces'[b] <= Answer!Length(b)'
    BY <1>1 DEF Answer!Length
  <2>3. 0 \in 0 .. Len(Answer!Ending')
    BY EndingIsFinite, <1>1 DEF Answer!Ending, Answer!dialect
  <2> QED BY <1>1, <1>2, <1>4, <2>1, <2>2, <2>3 DEF InMessage
<1>6. InTurn'
  BY <1>1 DEF InTurn
<1>7. /\ DOMAIN told' = FieldsTold
      /\ told'.thought = <<>> /\ told'.text = <<>> /\ told'.calls = <<>>
      /\ told'.finish = Answer!NoReason /\ told'.usage = FALSE
      /\ told'.done = 0 /\ told'.late = FALSE
      /\ told'.strays = FALSE /\ told'.parted = FALSE
  BY <1>1, <1>2 DEF Answer!NothingTold, FieldsTold
<1>8. \A kind : Sent(kind)' = {}
  BY <1>1 DEF Sent, Answer!Pieces, Answer!Blocks
<1>9. ThoughtTold' /\ TextTold'
  <2>1. \A kind : Lists(<<>>, Sent(kind)')
    BY <1>8, NothingIsListed
  <2> QED BY <1>7, <2>1, NothingIsListed DEF ThoughtTold, TextTold
<1>10. Named' = {}
  BY <1>1 DEF Named, Calls, Answer!CallsOf
<1>11. Cardinality(Named') = 0
  BY <1>10, FS_EmptySet
<1>12. CallsCounted'
  BY <1>1, <1>2, <1>10, <1>11 DEF CallsCounted, Answer!NoneCounted
<1>13. CallsTold'
  <2>1. told'.calls = [n \in 0 .. Cardinality(Named') - 1 |-> told'.calls[n]]
    BY <1>7, <1>11
  <2> QED BY <1>7, <1>10, <2>1 DEF CallsTold, NumberedAsNamed
<1>14. \A what : ~SaidBy(what)'
  BY <1>1, <1>2 DEF SaidBy
<1>15. FinishIsTold' /\ UsageIsTold'
  BY <1>7, <1>14 DEF FinishIsTold, UsageIsTold
<1>16. DoneIsTold'
  <2> SUFFICES ASSUME NEW j, OnceAt(j)'
               PROVE  told'.done = (IF j <= ends' THEN 1 ELSE 0) /\ ~told'.late
    BY DEF DoneIsTold
  <2>1. j \in TellingEnds'
    BY DEF OnceAt
  <2>2. TellingEnds' = TellingEnds
    BY <1>1 DEF TellingEnds
  <2>3. j \in Nat /\ j >= 1
    BY <2>1, <2>2, EndingIsFinite
  <2> QED BY <1>1, <1>2, <1>7, <2>3
<1>17. NothingTripped'
  BY <1>1, <1>2 DEF NothingTripped
<1>18. StreamIsTold'
  BY <1>5, <1>6, <1>7, <1>9, <1>12, <1>13, <1>15, <1>16, <1>17
     DEF StreamIsTold, ToldIsWhole, StraysTold
<1> QED BY <1>1, <1>3, <1>18 DEF AnswerInv, Waits, Flowing

(* Each action of an answer keeps what holds of it.                        *)
LEMMA PieceKeeps ==
  ASSUME AnswerInv, NEW b \in Answer!Blocks, Answer!SendPiece(b) PROVE AnswerInv'
<1>1. /\ answer = "streaming" /\ Answer!CanSend(b)
      /\ PieceSent(b) /\ counted' = Answer!Count(b) /\ b \in DOMAIN message
  BY DEF Answer!SendPiece, Answer!Fixed, PieceSent, Answer!Blocks
<1>2. StreamIsTold
  BY <1>1 DEF AnswerInv, Flowing
<1>3. /\ ends = 0 /\ ends' = 0 /\ InMessage' /\ InTurn'
  BY <1>1, <1>2, PieceIsNext DEF StreamIsTold, PieceSent
<1>4. /\ PieceTold(b, told')
      /\ Row.done # "each" => told'.done = told.done
      /\ told.done = 0 /\ ~told.late => ~told'.late
      /\ StraysTold'
  BY <1>1, <1>2, SentPieceIsTold DEF StreamIsTold
<1>5. ToldIsWhole'
  BY <1>4 DEF PieceTold, ToldIsWhole
<1>6. ThoughtTold' /\ TextTold'
  BY <1>1, <1>2, <1>4, ListsGo DEF StreamIsTold
<1>7. CallsCounted' /\ CallsTold'
  BY <1>1, <1>2, <1>4, CallsGo DEF StreamIsTold
<1>8. /\ Answer!Ending' = Answer!Ending /\ Row' = Row /\ TellingEnds' = TellingEnds
      /\ Calls' = Calls
  BY <1>1 DEF PieceSent, Answer!Ending, Answer!dialect, Row, TellingEnds,
              Calls, Answer!CallsOf
<1>9. \A what : ~SaidBy(what) /\ ~SaidBy(what)'
  BY <1>3 DEF SaidBy
<1>10. FinishIsTold' /\ UsageIsTold'
  <2>1. told'.finish = told.finish /\ told'.usage = told.usage
    BY <1>4 DEF PieceTold
  <2> QED BY <1>2, <1>8, <1>9, <2>1 DEF StreamIsTold, FinishIsTold, UsageIsTold
<1>11. DoneIsTold'
  <2> SUFFICES ASSUME NEW j, OnceAt(j)'
               PROVE  told'.done = (IF j <= ends' THEN 1 ELSE 0) /\ ~told'.late
    BY DEF DoneIsTold
  <2>1. OnceAt(j)
    BY <1>8 DEF OnceAt
  <2>2. j \in TellingEnds /\ j \in Nat /\ j >= 1 /\ Row.done # "each"
    BY <2>1, EndingIsFinite DEF OnceAt
  <2>3. told.done = 0 /\ ~told.late
    BY <1>2, <1>3, <2>1, <2>2 DEF StreamIsTold, DoneIsTold
  <2> QED BY <1>3, <1>4, <2>2, <2>3
<1>12. NothingTripped'
  BY <1>3 DEF NothingTripped
<1>13. StreamIsTold'
  BY <1>3, <1>4, <1>5, <1>6, <1>7, <1>10, <1>11, <1>12 DEF StreamIsTold
<1>14. EntryIsServed'
  BY <1>1 DEF AnswerInv, EntryIsServed, PieceSent
<1> QED BY <1>1, <1>13, <1>14 DEF AnswerInv, Waits, Flowing, PieceSent

LEMMA SendEndKeeps == ASSUME AnswerInv, Answer!SendEnd PROVE AnswerInv'
<1> DEFINE end == Answer!Ending[ends + 1]
<1>1. /\ answer = "streaming" /\ ends < Len(Answer!Ending)
      /\ \A b \in DOMAIN message : Answer!Complete(b)
      /\ ends' = ends + 1
      /\ UNCHANGED <<entry, strict, lone, message, reason, pieces, counted>>
  BY DEF Answer!SendEnd, Answer!Fixed, Answer!Blocks
<1>2. StreamIsTold
  BY <1>1 DEF AnswerInv, Flowing
<1>3. CASE TripsOn(end)
  <2>1. answer' = "cut"
    BY <1>3 DEF Answer!SendEnd, TripsOn, Row
  <2>2. ends + 1 \in 1 .. Len(Answer!Ending)
    BY <1>1, <1>2, EndingIsFinite DEF StreamIsTold, InMessage
  <2>3. Answer!Breaks(entry, lone)
    BY <1>3, <2>2, EndingIsFinite
       DEF Answer!Breaks, TripsOn, Answer!Ending, Answer!dialect, Row
  <2>4. EntryIsServed'
    BY <1>1, <2>1 DEF AnswerInv, EntryIsServed
  <2> QED BY <1>1, <2>1, <2>3, <2>4 DEF AnswerInv, Waits, Flowing
<1>4. CASE ~TripsOn(end)
  <2>1. /\ answer' = answer
        /\ Answer!Tell(Len(message),
             IF Answer!Drops(Answer!dialect, end, Row) THEN told
             ELSE Answer!TellDone(Answer!TellUsage(
                    Answer!TellFinish(told, end, Row), end, Row), end, Row))
    BY <1>4 DEF Answer!SendEnd, TripsOn, Row
  <2>2. EndSent
    BY <1>1, <2>1 DEF EndSent
  <2>3. /\ InMessage' /\ ToldIsWhole'
        /\ told'.thought = told.thought /\ told'.text = told.text
        /\ told'.calls = told.calls
        /\ FinishIsTold' /\ UsageIsTold' /\ DoneIsTold' /\ NothingTripped'
        /\ StraysTold'
    BY <1>1, <1>2, <1>4, <2>1, <2>2, EndsGo DEF StreamIsTold
  <2>4. InTurn'
    BY <1>1, <1>2 DEF StreamIsTold, InTurn, Beside, Answer!Complete,
                      Answer!Length, Answer!dialect
  <2>5. ThoughtTold' /\ TextTold'
    BY <1>1, <1>2, <2>3 DEF StreamIsTold, ThoughtTold, TextTold, Row, Sent,
                            Answer!Pieces, Answer!Blocks
  <2>6. /\ Named' = Named /\ Row' = Row /\ \A c : Rank(c)' = Rank(c)
        /\ (NumbersAgree' <=> NumbersAgree)
    BY <1>1 DEF Named, Calls, Answer!CallsOf, Row, Rank, Answer!Ordinal,
                NumbersAgree, Answer!dialect
  <2>7. CallsCounted' /\ CallsTold'
    BY <1>1, <1>2, <2>3, <2>6
       DEF StreamIsTold, CallsCounted, CallsTold, NumberedAsNamed
  <2>8. EntryIsServed'
    BY <1>1, <2>1 DEF AnswerInv, EntryIsServed
  <2> QED BY <1>1, <2>1, <2>3, <2>4, <2>5, <2>7, <2>8
             DEF AnswerInv, Waits, Flowing, StreamIsTold
<1> QED BY <1>3, <1>4

-----------------------------------------------------------------------------
(* What changes only how far the answer is leaves the stream as it stands. *)
LEMMA StreamStands ==
  ASSUME StreamIsTold,
         UNCHANGED <<entry, strict, lone, message, reason, pieces, ends, counted,
                     told>>,
         answer' = "ended" => ends = Len(Answer!Ending)
  PROVE  StreamIsTold'
<1>1. /\ Row' = Row /\ Answer!Ending' = Answer!Ending /\ TellingEnds' = TellingEnds
      /\ Answer!dialect' = Answer!dialect
      /\ Calls' = Calls /\ Named' = Named /\ \A c : Rank(c)' = Rank(c)
  BY DEF Row, Answer!Ending, TellingEnds, Answer!dialect, Calls, Named,
         Answer!CallsOf, Rank, Answer!Ordinal
<1>2. \A kind : Sent(kind)' = Sent(kind)
  BY DEF Sent, Answer!Pieces, Answer!Blocks
<1>3. \A what : SaidBy(what)' <=> SaidBy(what)
  BY <1>1 DEF SaidBy
<1>4. \A b : /\ Answer!Length(b)' = Answer!Length(b)
             /\ Answer!Complete(b)' <=> Answer!Complete(b)
  BY DEF Answer!Length, Answer!Complete, Answer!dialect
<1>5. InMessage'
  <2>1. /\ Answer!CanSay(message)' = Answer!CanSay(message)
        /\ Answer!CanStopFor(message)' = Answer!CanStopFor(message)
    BY DEF Answer!CanSay, Answer!CanStopFor, Answer!dialect
  <2> QED BY <1>1, <1>4, <2>1 DEF StreamIsTold, InMessage
<1>6. InTurn'
  BY <1>1, <1>4 DEF StreamIsTold, InTurn, Beside
<1>7. ToldIsWhole'
  BY DEF StreamIsTold, ToldIsWhole
<1>8. ThoughtTold' /\ TextTold'
  BY <1>1, <1>2 DEF StreamIsTold, ThoughtTold, TextTold
<1>9. CallsCounted' /\ CallsTold'
  BY <1>1 DEF StreamIsTold, CallsCounted, CallsTold, NumberedAsNamed, NumbersAgree
<1>10. FinishIsTold' /\ UsageIsTold'
  BY <1>1, <1>3 DEF StreamIsTold, FinishIsTold, UsageIsTold
<1>11. DoneIsTold'
  BY <1>1 DEF StreamIsTold, DoneIsTold, OnceAt
<1>12. NothingTripped'
  BY <1>1 DEF StreamIsTold, NothingTripped, TripsOn
<1>13. StraysTold'
  BY <1>1 DEF StreamIsTold, StraysTold
<1> QED BY <1>5, <1>6, <1>7, <1>8, <1>9, <1>10, <1>11, <1>12, <1>13
        DEF StreamIsTold

LEMMA EndStreamKeeps == ASSUME AnswerInv, Answer!EndStream PROVE AnswerInv'
<1>1. /\ answer = "streaming" /\ answer' = "ended" /\ ends = Len(Answer!Ending)
      /\ UNCHANGED <<entry, strict, lone, message, reason, pieces, ends, counted,
                     told>>
  BY DEF Answer!EndStream, Answer!Fixed
<1>2. StreamIsTold'
  BY <1>1, StreamStands DEF AnswerInv, Flowing
<1>3. EntryIsServed'
  BY <1>1 DEF AnswerInv, EntryIsServed
<1> QED BY <1>1, <1>2, <1>3 DEF AnswerInv, Waits, Flowing

LEMMA WholeKeeps ==
  ASSUME AnswerInv, Answer!AnswerWhole \/ Answer!AnswerInJson PROVE AnswerInv'
<1>1. \/ answer = "whole" /\ answer' = "told"
      \/ answer = "array" /\ answer' = "misread"
  BY DEF Answer!AnswerWhole, Answer!AnswerInJson
<1>2. UNCHANGED <<entry, strict, lone>>
  BY DEF Answer!AnswerWhole, Answer!AnswerInJson, Answer!Fixed
<1>3. EntryIsServed'
  BY <1>1, <1>2 DEF AnswerInv, EntryIsServed
<1> QED BY <1>1, <1>3 DEF AnswerInv, Waits, Flowing

(* What is made of a failure is none of what is made of a stream.          *)
LEMMA FailureKeeps ==
  ASSUME AnswerInv, NEW body \in Answer!Bodies,
         Answer!Fail(body) \/ Answer!FailUnderFine(body)
  PROVE  AnswerInv' /\ answer' \in Answer!Failures
<1>1. /\ answer \in {"streamed", "whole", "array"}
      /\ UNCHANGED <<entry, strict, lone>>
      /\ answer' \in {entry.whole.refuses.failing[body],
                      entry.whole.refuses.fine[body]}
  BY DEF Answer!Fail, Answer!FailUnderFine, Answer!Fixed
<1>2. entry \in Catalogue
  BY <1>1 DEF AnswerInv, EntryIsServed
<1>3. answer' \in Answer!Failures
  <2>1. {entry.whole.refuses.failing[body], entry.whole.refuses.fine[body]}
          \subseteq Answer!Failures
    BY <1>2, CatalogueAssumption
  <2> QED BY <1>1, <2>1
<1>4. answer' \in {"refusal", "unreadable", "passed", "trips", "answer"}
  BY <1>3 DEF Answer!Failures
<1>5. EntryIsServed'
  BY <1>1, <1>4 DEF AnswerInv, EntryIsServed
<1> QED BY <1>3, <1>4, <1>5 DEF AnswerInv, Waits, Flowing

LEMMA AnswerKeeps == ASSUME AnswerInv, Answer!Next PROVE AnswerInv'
<1>1. CASE Answer!Open
  BY <1>1, OpenStarts
<1>2. CASE \E b \in Answer!Blocks : Answer!SendPiece(b)
  BY <1>2, PieceKeeps
<1>3. CASE Answer!SendEnd
  BY <1>3, SendEndKeeps
<1>4. CASE Answer!EndStream
  BY <1>4, EndStreamKeeps
<1>5. CASE Answer!AnswerWhole \/ Answer!AnswerInJson
  BY <1>5, WholeKeeps
<1>6. CASE \E body \in Answer!Bodies : Answer!Fail(body) \/ Answer!FailUnderFine(body)
  BY <1>6, FailureKeeps
<1> QED BY <1>1, <1>2, <1>3, <1>4, <1>5, <1>6 DEF Answer!Next

-----------------------------------------------------------------------------
(* A field of the request is made from what its table speaks of, and while *)
(* it is being written there is no answer.                                 *)
MadeFromRows ==
  \A f \in DOMAIN sent : \A p \in sent[f].from :
    \E i \in DOMAIN rows : p \in {rows[i].of} \union rows[i].reads
RequestFirst == answer = "none" <=> outcome \in {"mapping", "sent", "refused"}

ExchangeInv == MadeFromRows /\ RequestFirst /\ AnswerInv

(* What a row makes is made from what the row names or reads.              *)
LEMMA ValueIsFromRow ==
  ASSUME NEW row, NEW ask
  PROVE  /\ getValue(row, ask).from \subseteq {row.of} \union row.reads
         /\ Default(row, ask).from \subseteq {row.of} \union row.reads
<1>1. Carried(row, ask) \subseteq row.reads
  BY DEF Carried
<1>2. Default(row, ask).from \subseteq {row.of} \union row.reads
  BY <1>1 DEF Default
<1>3. getValue(row, ask).from = IF row.reads # {} THEN Carried(row, ask) ELSE {row.of}
  BY DEF getValue, Clamp
<1> QED BY <1>1, <1>2, <1>3

LEMMA MappingKeeps ==
  ASSUME MadeFromRows, Next PROVE MadeFromRows' /\ rows' = rows
<1>1. rows' = rows
  BY DEF Next, Begin, PutSaid, PutDefault, Put, Skip, Send, rows
<1>2. CASE sent' = sent
  BY <1>1, <1>2 DEF MadeFromRows
<1>3. ASSUME NEW f, NEW value, sent' = [sent EXCEPT ![f] = value],
             at \in DOMAIN rows,
             value.from \subseteq {rows[at].of} \union rows[at].reads
      PROVE  MadeFromRows'
  BY <1>1, <1>3 DEF MadeFromRows
<1>4. CASE PutSaid
  <2> DEFINE value == getValue(rows[at], params)
  <2>1. value.from \subseteq {rows[at].of} \union rows[at].reads
    BY ValueIsFromRow
  <2>2. at \in DOMAIN rows /\ sent' = [sent EXCEPT ![rows[at].to] = value]
    BY <1>4 DEF PutSaid, Put, Mapping
  <2> HIDE DEF value
  <2> QED BY <1>1, <1>3, <2>1, <2>2
<1>5. CASE PutDefault
  <2> DEFINE value == Default(rows[at], params)
  <2>1. value.from \subseteq {rows[at].of} \union rows[at].reads
    BY ValueIsFromRow
  <2>2. at \in DOMAIN rows /\ sent' = [sent EXCEPT ![rows[at].to] = value]
    BY <1>5 DEF PutDefault, Put, Mapping
  <2> HIDE DEF value
  <2> QED BY <1>1, <1>3, <2>1, <2>2
<1> QED BY <1>1, <1>2, <1>4, <1>5 DEF Next, Begin, Skip, Send

(* A request is streamed, or asks for usage in a chunk of its own, only if *)
(* its table speaks of that: of nothing else is it made.                   *)
LEMMA HandOverKeeps == ASSUME ExchangeInv, HandOver PROVE ExchangeInv'
<1>1. /\ outcome = "sent" /\ outcome' = "handed"
      /\ entry' \in Catalogue /\ entry'.table = table /\ strict' \in BOOLEAN
      /\ lone' = (Streams(entry') /\ Reached("stream_options"))
      /\ answer' = IF ~Streams(entry') THEN "whole"
                   ELSE IF entry'.at.streams = "json" THEN "array" ELSE "streamed"
      /\ sent' = <<>>
      /\ UNCHANGED <<table, message, reason, pieces, ends, counted, told>>
  BY DEF HandOver
<1>2. answer = "none" /\ Answer!Waiting
  BY <1>1 DEF ExchangeInv, RequestFirst, AnswerInv, Waits
<1>3. ASSUME NEW p, Reached(p) PROVE SpeaksOf(entry', p)
  BY <1>1, <1>3 DEF ExchangeInv, MadeFromRows, Reached, SpeaksOf, rows
<1>4. MadeFromRows'
  BY <1>1 DEF MadeFromRows
<1>5. answer' \in {"whole", "array", "streamed"}
  BY <1>1
<1>6. RequestFirst'
  BY <1>1, <1>5 DEF RequestFirst
<1>7. Answer!Waiting'
  BY <1>1, <1>2 DEF Answer!Waiting
<1>8. EntryIsServed'
  <2>1. lone' \in MayBeLone(entry')
    <3>1. CASE Reached("stream_options")
      BY <1>1, <1>3, <3>1 DEF MayBeLone
    <3>2. CASE ~Reached("stream_options")
      BY <1>1, <3>2 DEF MayBeLone
    <3> QED BY <3>1, <3>2
  <2>2. Streams(entry') => entry'.fn \in Streamed
    BY DEF Streams, streamingMode
  <2>3. Streams(entry') /\ entry'.at.streams = "body" => SpeaksOf(entry', "stream")
    BY <1>3 DEF Streams, ToldToStream
  <2>4. answer' \in {"streamed", "streaming", "ended", "cut"} => MayStream(entry')
    BY <1>1, <2>2, <2>3 DEF MayStream
  <2>5. answer' \in {"array", "misread"} =>
          entry'.fn \in Streamed /\ entry'.at.streams = "json"
    BY <1>1, <2>2
  <2> QED BY <1>1, <2>1, <2>4, <2>5 DEF EntryIsServed
<1>9. AnswerInv'
  BY <1>5, <1>7, <1>8 DEF AnswerInv, Waits, Flowing
<1> QED BY <1>4, <1>6, <1>9 DEF ExchangeInv

(* From its mapping to the end of its answer, a request is served by an    *)
(* entry of the catalogue that can serve it so, and a stream has told at   *)
(* each moment just what its pieces and ends so far hold.                  *)
THEOREM ExchangeInvariance == ExchangeSpec => []ExchangeInv
<1>1. ExchangeInit => ExchangeInv
  <2> SUFFICES ASSUME ExchangeInit PROVE ExchangeInv
    OBVIOUS
  <2>1. MadeFromRows
    BY DEF ExchangeInit, Init, MadeFromRows, Absent
  <2>2. RequestFirst
    BY DEF ExchangeInit, Init, RequestFirst
  <2>3. answer = "none" /\ Answer!Waiting
    BY DEF ExchangeInit
  <2>4. AnswerInv
    BY <2>3 DEF AnswerInv, EntryIsServed, Waits, Flowing
  <2> QED BY <2>1, <2>2, <2>4 DEF ExchangeInv
<1>2. ExchangeInv /\ [ExchangeNext]_<<vars, answerVars>> => ExchangeInv'
  <2> SUFFICES ASSUME ExchangeInv, [ExchangeNext]_<<vars, answerVars>>
               PROVE  ExchangeInv'
    OBVIOUS
  <2>1. ASSUME UNCHANGED answerVars PROVE AnswerInv'
    <3>1. Flowing => StreamIsTold'
      BY <2>1, StreamStands
         DEF answerVars, ExchangeInv, AnswerInv, Flowing, StreamIsTold, InMessage
    <3>2. Answer!Waiting' <=> Answer!Waiting
      BY <2>1 DEF answerVars, Answer!Waiting
    <3>3. EntryIsServed'
      BY <2>1 DEF answerVars, ExchangeInv, AnswerInv, EntryIsServed
    <3> QED BY <2>1, <3>1, <3>2, <3>3
            DEF answerVars, ExchangeInv, AnswerInv, Flowing, Waits
  <2>2. CASE Map
    <3>1. MadeFromRows'
      BY <2>2, MappingKeeps DEF Map, ExchangeInv
    <3>2. RequestFirst'
      BY <2>2 DEF Map, ExchangeInv, RequestFirst, answerVars,
                  Next, Begin, PutSaid, PutDefault, Put, Skip, Send, Mapping
    <3> QED BY <2>1, <2>2, <3>1, <3>2 DEF Map, ExchangeInv
  <2>3. CASE HandOver
    BY <2>3, HandOverKeeps
  <2>4. CASE Read
    <3>1. outcome = "handed" /\ Answer!Next /\ UNCHANGED vars
      BY <2>4 DEF Read
    <3>2. AnswerInv'
      BY <3>1, AnswerKeeps DEF ExchangeInv
    <3>3. MadeFromRows'
      BY <3>1 DEF vars, rows, ExchangeInv, MadeFromRows
    <3>4. RequestFirst'
      <4>1. answer # "none"
        BY <3>1 DEF ExchangeInv, RequestFirst
      <4>2. answer' # "none"
        <5>1. CASE \E body \in Answer!Bodies :
                     Answer!Fail(body) \/ Answer!FailUnderFine(body)
          <6>1. answer' \in Answer!Failures
            BY <5>1, FailureKeeps DEF ExchangeInv
          <6> QED BY <6>1 DEF Answer!Failures
        <5>2. CASE ~\E body \in Answer!Bodies :
                      Answer!Fail(body) \/ Answer!FailUnderFine(body)
          BY <3>1, <4>1, <5>2
             DEF Answer!Next, Answer!Open, Answer!SendPiece, Answer!SendEnd,
                 Answer!EndStream, Answer!AnswerWhole, Answer!AnswerInJson
        <5> QED BY <5>1, <5>2
      <4> QED BY <3>1, <4>1, <4>2 DEF vars, RequestFirst
    <3> QED BY <3>2, <3>3, <3>4 DEF ExchangeInv
  <2>5. CASE UNCHANGED <<vars, answerVars>>
    <3>1. UNCHANGED vars /\ UNCHANGED answerVars
      BY <2>5
    <3>2. MadeFromRows' /\ RequestFirst'
      BY <3>1 DEF vars, answerVars, rows, ExchangeInv, MadeFromRows, RequestFirst
    <3> QED BY <2>1, <3>1, <3>2 DEF ExchangeInv
  <2> QED BY <2>2, <2>3, <2>4, <2>5 DEF ExchangeNext
<1> QED BY <1>1, <1>2, PTL DEF ExchangeSpec

-----------------------------------------------------------------------------
(* When all is sent, a list of the pieces of a kind is the whole answer's. *)
LEMMA ListOfPieces ==
  ASSUME InMessage, NEW kind, NEW list, Lists(list, Answer!Pieces(kind))
  PROVE  list = Answer!PiecesOf(kind)
<1> DEFINE all == Answer!Pieces(kind)
<1>1. all \in SUBSET Place /\ IsFiniteSet(all)
  BY PiecesAreFinite
<1>2. list = [n \in 1 .. Cardinality(all) |->
                CHOOSE p \in all : Cardinality(Before(p, all)) = n - 1]
  BY <1>1, ListedOnce
<1>3. \A p : Answer!Cardinality(Before(p, all)) = Cardinality(Before(p, all))
  BY OneCardinality
<1>4. Answer!Cardinality(all) = Cardinality(all)
  BY OneCardinality
<1>5. Answer!PiecesOf(kind) =
        [n \in 1 .. Answer!Cardinality(all) |->
           CHOOSE p \in all : Answer!Cardinality(Before(p, all)) = n - 1]
  BY DEF Answer!PiecesOf, Before
<1> QED BY <1>2, <1>3, <1>4, <1>5

LEMMA NothingListed == ASSUME NEW list, Lists(list, {}) PROVE list = <<>>
BY FS_EmptySet DEF Lists

(* The calls of a message that is all there are told as a whole answer     *)
(* tells them.                                                             *)
LEMMA CallsAreNumbered ==
  ASSUME InMessage, CallsCounted, NumberedAsNamed,
         \A b \in DOMAIN message : Answer!Complete(b)
  PROVE  told.calls = Answer!NumberedCalls
<1>1. Named = Calls
  BY CompleteCalls
<1> DEFINE count == Cardinality(Calls)
           ofRank(n) == CHOOSE b \in Calls : Rank(b) = n
<1>2. told.calls = [n \in 0 .. count - 1 |-> told.calls[n]]
  BY <1>1 DEF NumberedAsNamed
<1>3. Answer!Cardinality(Calls) = count
  BY OneCardinality
<1>4. Answer!NumberedCalls =
        [n \in 0 .. Answer!Cardinality(Calls) - 1 |->
           PiecesUpTo(ofRank(n), Answer!Length(ofRank(n)))]
  BY DEF Answer!NumberedCalls, Calls, Rank, PiecesUpTo
<1>5. ASSUME NEW n \in 0 .. count - 1
      PROVE  told.calls[n] = PiecesUpTo(ofRank(n), Answer!Length(ofRank(n)))
  <2>1. PICK b \in Calls : Rank(b) = n
    BY <1>1 DEF CallsCounted
  <2>2. ofRank(n) \in Calls /\ Rank(ofRank(n)) = n
    BY <2>1
  <2>3. told.calls[n] = PiecesUpTo(ofRank(n), pieces[ofRank(n)])
    BY <1>1, <2>2 DEF NumberedAsNamed
  <2>4. pieces[ofRank(n)] = Answer!Length(ofRank(n))
    BY <2>2, CallsAreFinite DEF Answer!Complete
  <2> QED BY <2>3, <2>4
<1> HIDE DEF count, ofRank
<1> QED BY <1>2, <1>3, <1>4, <1>5

(* A stream that has ended has sent every piece and every end.             *)
LEMMA AllIsSent ==
  ASSUME StreamIsTold, answer = "ended"
  PROVE  /\ ends = Len(Answer!Ending)
         /\ \A b \in DOMAIN message : Answer!Complete(b)
         /\ \A what : SaidBy(what) <=> Answer!Tells(entry, lone, what)
<1>1. ends = Len(Answer!Ending) /\ ends > 0
  BY EndingIsFinite DEF StreamIsTold, InMessage
<1>2. ASSUME NEW what
      PROVE  SaidBy(what) <=> Answer!Tells(entry, lone, what)
  <2>1. Answer!Tells(entry, lone, what) <=>
          \E j \in TellingEnds : what \in Answer!Ending[j]
    BY DEF Answer!Tells, TellingEnds, Answer!Ending, Answer!dialect
  <2> QED BY <1>1, <2>1, EndingIsFinite DEF SaidBy
<1> QED BY <1>1, <1>2 DEF StreamIsTold, InMessage

(* The other dialects carry text alone.                                    *)
LEMMA OnlyChattyCall ==
  ASSUME InMessage, Answer!dialect \notin Answer!Chatty
  PROVE  Calls = {} /\ Answer!Pieces("thought") = {}
BY DEF InMessage, Answer!CanSay, Calls, Answer!CallsOf, Answer!Pieces, Answer!Blocks

(* Facet by facet: where the rows agree, what was told at the end is what  *)
(* the whole answer tells.                                                 *)
LEMMA ThoughtAsWhole ==
  ASSUME StreamIsTold, answer = "ended", strict \in BOOLEAN,
         Answer!AgreeOnThought(entry)
  PROVE  told.thought = Answer!If(Answer!ReasoningKept(entry.whole, strict),
                                  Answer!PiecesOf("thought"))
<1>1. InMessage /\ \A b \in DOMAIN message : Answer!Complete(b)
  BY AllIsSent DEF StreamIsTold
<1>2. Sent("thought") = Answer!Pieces("thought")
  BY <1>1, AllSent
<1>3. Answer!ReasoningKept(Row, strict) => told.thought = Answer!PiecesOf("thought")
  BY <1>1, <1>2, ListOfPieces DEF StreamIsTold, ThoughtTold
<1>4. ~Answer!ReasoningKept(Row, strict) => told.thought = <<>>
  BY NothingListed DEF StreamIsTold, ThoughtTold
<1>5. CASE Answer!dialect \in Answer!Chatty
  <2>1. Answer!ReasoningKept(entry.whole, strict) <=> Answer!ReasoningKept(Row, strict)
    BY <1>5 DEF Answer!AgreeOnThought, Answer!dialect, Row
  <2> QED BY <1>3, <1>4, <2>1 DEF Answer!If
<1>6. CASE Answer!dialect \notin Answer!Chatty
  <2>1. Answer!Pieces("thought") = {}
    BY <1>1, <1>6, OnlyChattyCall
  <2>2. Answer!PiecesOf("thought") = <<>>
    BY <1>1, <2>1, NothingIsListed, ListOfPieces
  <2> QED BY <1>3, <1>4, <2>2 DEF Answer!If
<1> QED BY <1>5, <1>6

LEMMA TextAsWhole ==
  ASSUME StreamIsTold, answer = "ended", Answer!AgreeOnText(entry)
  PROVE  told.text = Answer!If("text" \in entry.whole.keeps, Answer!PiecesOf("text"))
<1>1. InMessage /\ \A b \in DOMAIN message : Answer!Complete(b)
  BY AllIsSent DEF StreamIsTold
<1>2. Sent("text") = Answer!Pieces("text")
  BY <1>1, AllSent
<1>3. "text" \in Row.keeps => told.text = Answer!PiecesOf("text")
  BY <1>1, <1>2, ListOfPieces DEF StreamIsTold, TextTold
<1>4. "text" \notin Row.keeps => told.text = <<>>
  BY NothingListed DEF StreamIsTold, TextTold
<1> QED BY <1>3, <1>4 DEF Answer!If, Answer!AgreeOnText, Row

LEMMA CallsAsWhole ==
  ASSUME StreamIsTold, answer = "ended", Answer!AgreeOnCalls(entry)
  PROVE  told.calls =
           Answer!If("calls" \in entry.whole.keeps /\ Answer!CallsOf(message) # {},
                     Answer!NumberedCalls)
<1>1. InMessage /\ CallsCounted /\ \A b \in DOMAIN message : Answer!Complete(b)
  BY AllIsSent DEF StreamIsTold
<1>2. Named = Calls
  BY <1>1, CompleteCalls
<1>3. CASE Calls = {}
  BY <1>2, <1>3 DEF StreamIsTold, CallsTold, Calls, Answer!If
<1>4. CASE Calls # {}
  <2>1. Answer!dialect \in Answer!Chatty
    BY <1>1, <1>4, OnlyChattyCall
  <2>2. /\ "calls" \in entry.whole.keeps <=> "calls" \in Row.keeps
        /\ "calls" \in Row.keeps => NumbersAgree
    BY <2>1 DEF Answer!AgreeOnCalls, Answer!dialect, Row, NumbersAgree
  <2>3. "calls" \in Row.keeps => told.calls = Answer!NumberedCalls
    BY <1>1, <2>2, CallsAreNumbered DEF StreamIsTold, CallsTold
  <2>4. "calls" \notin Row.keeps => told.calls = <<>>
    BY DEF StreamIsTold, CallsTold
  <2> QED BY <1>4, <2>2, <2>3, <2>4 DEF Calls, Answer!If
<1> QED BY <1>3, <1>4

LEMMA FinishAsWhole ==
  ASSUME StreamIsTold, answer = "ended", strict \in BOOLEAN,
         Answer!AgreeOnFinish(entry, lone)
  PROVE  told.finish =
           Answer!FinishTold(entry.whole.finish, reason, strict,
             "calls" \in entry.whole.keeps /\ Answer!CallsOf(message) # {})
<1> DEFINE called == Calls # {}
<1>1. InMessage /\ reason \in Answer!Reasons(called)
  BY DEF StreamIsTold, InMessage, Answer!CanStopFor, Calls
<1>2. called \in {Answer!dialect \in Answer!Chatty, FALSE}
  BY <1>1, OnlyChattyCall
<1>3. Row.tells # "finishAndUsage"
  BY DEF Answer!AgreeOnFinish, Row
<1>4. told.finish = Answer!FinishEnds(entry, lone, reason, strict, called)
  <2>1. told.finish =
          IF Row.tells \in {"finish", "usage"} /\ SaidBy(Row.tells)
          THEN Answer!FinishTold(Row.finish, reason, strict, called)
          ELSE Answer!NoReason
    BY <1>3 DEF StreamIsTold, FinishIsTold
  <2> HIDE DEF called
  <2> QED BY <2>1, AllIsSent DEF Answer!FinishEnds, Row
<1> HIDE DEF called
<1>5. Answer!FinishEnds(entry, lone, reason, strict, called) =
        Answer!FinishTold(entry.whole.finish, reason, strict,
                          called /\ "calls" \in entry.whole.keeps)
  BY <1>1, <1>2 DEF Answer!AgreeOnFinish, Answer!dialect
<1>6. (called /\ "calls" \in entry.whole.keeps) =
        ("calls" \in entry.whole.keeps /\ Answer!CallsOf(message) # {})
  BY DEF called, Calls
<1> QED BY <1>4, <1>5, <1>6

LEMMA UsageAsWhole ==
  ASSUME StreamIsTold, answer = "ended", Answer!AgreeOnUsage(entry, lone)
  PROVE  told.usage = ("usage" \in entry.whole.keeps)
<1>1. told.usage <=> "usage" \in entry.whole.keeps
  BY AllIsSent DEF StreamIsTold, UsageIsTold, Answer!AgreeOnUsage, Row
<1> QED BY <1>1 DEF StreamIsTold, UsageIsTold

(* What is Excepted is an entry's, and so are the rows that agree.         *)
LEMMA EntryAgrees ==
  ASSUME EntryIsServed, answer \in {"ended", "cut"}
  PROVE  /\ strict \in BOOLEAN
         /\ Answer!AgreeOnThought(entry) \/ Excepted(entry, "thought")
         /\ Answer!AgreeOnText(entry) \/ Excepted(entry, "text")
         /\ Answer!AgreeOnChoice(entry) \/ Excepted(entry, "strays")
         /\ Answer!AgreeOnJoins(entry) \/ Excepted(entry, "parted")
         /\ Answer!AgreeOnCalls(entry) \/ Excepted(entry, "calls")
         /\ Answer!AgreeOnFinish(entry, lone) \/ Excepted(entry, "finish")
         /\ Answer!AgreeOnUsage(entry, lone) \/ Excepted(entry, "usage")
         /\ Answer!Breaks(entry, lone) => Excepted(entry, "cut")
         /\ \/ Answer!EndsOnce(entry, lone) \/ Answer!Breaks(entry, lone)
            \/ Excepted(entry, "done")
<1>1. /\ entry \in Catalogue /\ MayStream(entry)
      /\ lone \in MayBeLone(entry) /\ strict \in BOOLEAN
  BY DEF EntryIsServed
<1> QED BY <1>1, CatalogueAssumption

(* When a stream has ended the caller has been told what the whole answer  *)
(* to the same request would have told, facet by facet, unless something   *)
(* is known of the entry: for any message, any turns its pieces take and   *)
(* anything that was asked.                                                *)
THEOREM StreamsTellTheWhole == ExchangeSpec => []StreamedAsWhole
<1>1. ExchangeInv => StreamedAsWhole
  <2> SUFFICES ASSUME ExchangeInv, answer = "ended",
                      NEW facet \in {"thought", "text", "calls", "finish", "usage",
                                    "strays", "parted"}
               PROVE  told[facet] = Answer!WholeTold[facet] \/ Excepted(entry, facet)
    BY DEF StreamedAsWhole, Answer!StreamedAsWhole
  <2>1. StreamIsTold /\ EntryIsServed
    BY DEF ExchangeInv, AnswerInv, Flowing
  <2> DEFINE called == "calls" \in entry.whole.keeps /\ Answer!CallsOf(message) # {}
             whole == Answer!WholeTold
  <2>2. /\ whole.thought = Answer!If(Answer!ReasoningKept(entry.whole, strict),
                                     Answer!PiecesOf("thought"))
        /\ whole.text = Answer!If("text" \in entry.whole.keeps,
                                  Answer!PiecesOf("text"))
        /\ whole.calls = Answer!If(called, Answer!NumberedCalls)
        /\ whole.finish = Answer!FinishTold(entry.whole.finish, reason, strict, called)
        /\ whole.usage = ("usage" \in entry.whole.keeps)
        /\ whole.strays = FALSE
        /\ entry.whole.joins = "bare" => whole.parted = FALSE
    BY DEF Answer!WholeTold, Answer!NothingTold
  <2> HIDE DEF whole
  <2>3. CASE facet = "thought"
    BY <2>1, <2>2, <2>3, EntryAgrees, ThoughtAsWhole DEF whole
  <2>4. CASE facet = "text"
    BY <2>1, <2>2, <2>4, EntryAgrees, TextAsWhole DEF whole
  <2>5. CASE facet = "calls"
    BY <2>1, <2>2, <2>5, EntryAgrees, CallsAsWhole DEF whole
  <2>6. CASE facet = "finish"
    BY <2>1, <2>2, <2>6, EntryAgrees, FinishAsWhole DEF whole
  <2>7. CASE facet = "usage"
    BY <2>1, <2>2, <2>7, EntryAgrees, UsageAsWhole DEF whole
  <2>8. CASE facet = "strays"
    <3>1. Answer!AgreeOnChoice(entry) => told.strays = FALSE
      BY <2>1 DEF StreamIsTold, StraysTold, Answer!AgreeOnChoice, Row
    <3> QED BY <2>1, <2>2, <2>8, <3>1, EntryAgrees DEF whole
  <2>9. CASE facet = "parted"
    <3>1. Answer!AgreeOnJoins(entry) => told.parted = whole.parted
      BY <2>1, <2>2 DEF StreamIsTold, StraysTold, Answer!AgreeOnJoins
    <3> QED BY <2>1, <2>9, <3>1, EntryAgrees DEF whole
  <2> QED BY <2>3, <2>4, <2>5, <2>6, <2>7, <2>8, <2>9
<1> QED BY <1>1, ExchangeInvariance, PTL

(* A stream that is answered ends with one [DONE] and nothing after it,    *)
(* trips no transform and is not read as one piece, unless that is known   *)
(* of the entry: for any message and anything that was asked.              *)
THEOREM StreamsEndWell == ExchangeSpec => []EndsWell
<1>1. ExchangeInv => EndsWell
  <2> SUFFICES ASSUME ExchangeInv PROVE EndsWell
    OBVIOUS
  <2>1. EntryIsServed /\ AnswerInv
    BY DEF ExchangeInv, AnswerInv
  <2>2. ASSUME answer = "ended", ~Excepted(entry, "done")
        PROVE  told.done = 1 /\ ~told.late
    <3>1. StreamIsTold
      BY <2>1, <2>2 DEF AnswerInv, Flowing
    <3>2. ends = Len(Answer!Ending)
      BY <2>2, <3>1, AllIsSent
    <3>3. ~Answer!Breaks(entry, lone)
      BY <3>1, <3>2, EndingIsFinite
         DEF Answer!Breaks, StreamIsTold, NothingTripped, TripsOn,
             Answer!Ending, Answer!dialect, Row
    <3>4. Answer!EndsOnce(entry, lone)
      BY <2>1, <2>2, <3>3, EntryAgrees
    <3>5. PICK j \in TellingEnds : OnceAt(j)
      BY <3>4 DEF Answer!EndsOnce, OnceAt, TellingEnds, Answer!Ending,
                  Answer!dialect, Row
    <3>6. j <= ends
      BY <3>2, EndingIsFinite
    <3> QED BY <3>1, <3>5, <3>6 DEF StreamIsTold, DoneIsTold
  <2>3. ASSUME answer = "cut" PROVE Excepted(entry, answer)
    BY <2>1, <2>3, EntryAgrees DEF AnswerInv
  <2>4. ASSUME answer = "misread" PROVE Excepted(entry, answer)
    BY <2>1, <2>4, CatalogueAssumption DEF EntryIsServed
  <2> QED BY <2>2, <2>3, <2>4 DEF EndsWell, Answer!EndsWell
<1> QED BY <1>1, ExchangeInvariance, PTL
=============================================================================
