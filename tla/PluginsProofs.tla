---------------------------- MODULE PluginsProofs ----------------------------
(***************************************************************************)
(* What parts of three plugins promise, for every value of their constants *)
(* and any number of changes and failures.                                 *)
(*                                                                         *)
(* Of openai-inference: Endpoints (a literal key is sent to no URL but its *)
(* own, and a key listed as set is held), Completion (what a server taught *)
(* holds what it refuses, and a task ends) and, as the instance Typed,     *)
(* EndpointCards (what is typed in a card stays).  Of ui-tweaks: Tweaks,   *)
(* as Choosing (at rest, a window's copy is what is saved).  Of            *)
(* thread-usage: LogPlaces (what a read skipped is stored by a later one)  *)
(* and, as Viewing, UsageViews (a view at rest shows what the server has). *)
(***************************************************************************)
EXTENDS Endpoints, Completion, LogPlaces, Sequences, FiniteSetTheorems, TLAPS

-----------------------------------------------------------------------------
(***************************************************************************)
(* Endpoints.                                                              *)
(***************************************************************************)
KnownUrls == Urls \cup {Legacy[i].url : i \in DOMAIN Legacy}
KeyOf(url) == [url |-> url, key |-> url]
KeyFields == {None} \cup {Literal(set) : set \in BOOLEAN} \cup {Variable(v) : v \in Variables}
Stored == [url : KnownUrls, model : BOOLEAN, key : KeyFields] \cup {NoEndpoint}
File == {KeyOf(url) : url \in KnownUrls} \cup {NoKey}
Ops == [kind : {"save", "remove", "copy"}, id : Ids, next : [Ids -> Stored], file : {Keep, Put, Remove},
        url : KnownUrls \cup {""}, puts : SUBSET Ids, step : {"file", "write", "undo"}]

Types ==
  /\ saved \in [Ids -> Stored] /\ endpoints \in [Ids -> Stored]
  /\ keys \in [Ids -> File]
  /\ op \in Ops \cup {Idle}
  /\ request \in [id : Ids, e : Stored] \cup {Idle}
  /\ old \in [readable : BOOLEAN, keys : BOOLEAN]

Held(i, url) == keys[i] # NoKey /\ keys[i].url = url

\* A save or a removal changes one Endpoint.  What it stores as having its key is given
\* that key by the step on the file, or has it and keeps its URL.
ChangesOne ==
  /\ op.url \in KnownUrls
  /\ op.step = "file" => op.file # Keep
  /\ \A i \in Ids \ {op.id} : op.next[i] = saved[i]
  /\ HoldsLiteralKey(op.next[op.id]) =>
       \/ /\ op.file = Put /\ op.next[op.id].url = op.url
          /\ op.step = "write" => Held(op.id, op.url)
       \/ op.file = Keep /\ HoldsLiteralKey(saved[op.id]) /\ saved[op.id].url = op.next[op.id].url

\* The copy adds Endpoints: each that it lists with a key has that key, or gets it.
Adds(i) ==
  /\ saved[i] = NoEndpoint /\ i \in DOMAIN Legacy
  /\ HoldsLiteralKey(op.next[i]) => /\ op.next[i].url = Legacy[i].url
                                    /\ i \in op.puts \/ Held(i, Legacy[i].url)
Copies ==
  /\ op.file = Put /\ op.step # "undo"
  /\ op.step = "write" => op.puts = {}
  /\ \A i \in op.puts : saved[i] = NoEndpoint /\ i \in DOMAIN Legacy
  /\ \A i \in Ids : op.next[i] = saved[i] \/ Adds(i)

OpInv == op # Idle => IF op.kind = "copy" THEN Copies ELSE ChangesOne

\* Only the Endpoint whose key the operation changed may be without the key it lists.
Touched(i) == op # Idle /\ op.kind # "copy" /\ i = op.id /\ op.step # "file" /\ op.file # Keep
SavedInv ==
  \A i \in Ids : HoldsLiteralKey(saved[i]) /\ i \notin told /\ ~Touched(i) => Held(i, saved[i].url)

IInv == Types /\ OpInv /\ SavedInv /\ KeyStaysHome

-----------------------------------------------------------------------------
(***************************************************************************)
(* What the rules give.                                                    *)
(***************************************************************************)
\* The mark of a server at rest is no operation.
LEMMA OpsAreNotIdle == EndpointsAssumption => Idle \notin Ops
<1> SUFFICES ASSUME EndpointsAssumption, Idle \in Ops PROVE FALSE OBVIOUS
<1>1. \A k \in KeyFields : k \in {[kind |-> "none"]} \cup [kind : {"literal"}, set : BOOLEAN]
                                    \cup [kind : {"variable"}, name : Variables]
  BY DEF KeyFields, None, Literal, Variable
<1> DEFINE Shaped == {NoEndpoint} \cup
             [url : Urls \cup {Legacy[i].url : i \in DOMAIN Legacy}, model : BOOLEAN,
              key : {[kind |-> "none"]} \cup [kind : {"literal"}, set : BOOLEAN]
                      \cup [kind : {"variable"}, name : Variables]]
<1>2. Stored \subseteq Shaped BY <1>1 DEF Stored, KnownUrls
<1>3. [Ids -> Stored] \subseteq [Ids -> Shaped] BY <1>2
<1>4. Ops \subseteq Operations BY <1>3 DEF Ops, Operations, KnownUrls, Keep, Put, Remove
<1> QED BY <1>4 DEF EndpointsAssumption

LEMMA KeysKnown ==
  ASSUME EndpointsAssumption, NEW url \in KnownUrls
  PROVE  KeyOf(url) \in File /\ KeyOf(url) # NoKey /\ KeyOf(url).url = url
  BY DEF EndpointsAssumption, KnownUrls, KeyOf, File

LEMMA NoneHolds == ~HoldsLiteralKey(NoEndpoint)
  BY DEF HoldsLiteralKey

\* A draft stores one of the keys an Endpoint can have: as held, one typed now or one kept
\* with its URL.
LEMMA DraftStores ==
  ASSUME NEW e \in Stored, NEW url \in Urls, NEW key \in KeyDrafts, NEW create \in BOOLEAN, ~Refused(e, key, create)
  PROVE  /\ [url |-> url, model |-> TRUE, key |-> StoredKey(e, url, key)] \in Stored
         /\ KeyFileAction(e, url, key) \in {Keep, Put, Remove}
         /\ StoredKey(e, url, key).kind = "literal" /\ StoredKey(e, url, key).set =>
              \/ KeyFileAction(e, url, key) = Put
              \/ KeyFileAction(e, url, key) = Keep /\ HoldsLiteralKey(e) /\ e.url = url
<1>1. url \in KnownUrls BY DEF KnownUrls
<1>2. ASSUME NEW k \in KeyFields PROVE [url |-> url, model |-> TRUE, key |-> k] \in Stored
  BY <1>1 DEF Stored
<1>3. Literal(TRUE) \in KeyFields /\ Literal(FALSE) \in KeyFields BY DEF KeyFields
<1>4. CASE key.kind = "typed"
  <2>1. StoredKey(e, url, key) = Literal(TRUE) /\ KeyFileAction(e, url, key) = Put
    BY <1>4 DEF StoredKey, KeyFileAction
  <2> QED BY <1>2, <1>3, <2>1
<1>5. CASE key.kind = "blank"
  <2>1. HoldsLiteralKey(e) BY <1>5 DEF Refused
  <2>2. CASE ClearsLiteralKey(e, url)
    <3>1. StoredKey(e, url, key) = Literal(FALSE) /\ KeyFileAction(e, url, key) = Remove
      BY <1>5, <2>2 DEF StoredKey, KeyFileAction
    <3>2. ~Literal(FALSE).set BY DEF Literal
    <3> QED BY <1>2, <1>3, <3>1, <3>2
  <2>3. CASE ~ClearsLiteralKey(e, url)
    <3>1. StoredKey(e, url, key) = Literal(TRUE) /\ KeyFileAction(e, url, key) = Keep
      BY <1>5, <2>3 DEF StoredKey, KeyFileAction
    <3>2. e.url = url BY <2>1, <2>3 DEF ClearsLiteralKey
    <3> QED BY <1>2, <1>3, <2>1, <3>1, <3>2
  <2> QED BY <2>2, <2>3
<1>6. CASE key.kind \notin {"typed", "blank"}
  <2>1. StoredKey(e, url, key) = key /\ KeyFileAction(e, url, key) \in {Keep, Remove}
    BY <1>6 DEF StoredKey, KeyFileAction
  <2>2. key \in KeyFields /\ key.kind # "literal" BY <1>6 DEF KeyDrafts, KeyFields, None, Variable
  <2> QED BY <1>2, <2>1, <2>2
<1> QED BY <1>4, <1>5, <1>6

LEMMA CommandDrafts ==
  ASSUME NEW e \in Stored, NEW given \in {None} \cup {Variable(v) : v \in Variables}
  PROVE  CommandKey(e, given) \in KeyDrafts
<1>1. given \in KeyDrafts /\ None \in KeyDrafts /\ [kind |-> "blank"] \in KeyDrafts BY DEF KeyDrafts
<1>2. CASE given # None BY <1>1, <1>2 DEF CommandKey
<1>3. CASE given = None /\ e = NoEndpoint BY <1>1, <1>3 DEF CommandKey
<1>4. CASE given = None /\ e # NoEndpoint
  <2>1. e.key \in KeyFields BY <1>4 DEF Stored
  <2>2. e.key.kind # "literal" => e.key \in KeyDrafts BY <2>1 DEF KeyFields, KeyDrafts, Literal
  <2>3. CASE e.key.kind = "literal" BY <1>1, <1>4, <2>3 DEF CommandKey
  <2>4. CASE e.key.kind # "literal" BY <1>4, <2>2, <2>4 DEF CommandKey
  <2> QED BY <2>3, <2>4
<1> QED BY <1>2, <1>3, <1>4

-----------------------------------------------------------------------------
(***************************************************************************)
(* An operation begins.                                                    *)
(***************************************************************************)
\* Nothing but the operation changes.
LEMMA Begins ==
  ASSUME IInv, op = Idle, UNCHANGED <<saved, keys, endpoints, request, sent, old, told>>,
         op' \in Ops, OpInv'
  PROVE  IInv'
<1>1. Types' BY DEF IInv, Types
<1>2. SavedInv' BY DEF IInv, SavedInv, Touched, Held
<1>3. KeyStaysHome' BY DEF IInv, KeyStaysHome
<1> QED BY <1>1, <1>2, <1>3 DEF IInv

LEMMA SaveBegins ==
  ASSUME EndpointsAssumption, IInv, op = Idle,
         NEW id \in Ids, NEW url \in Urls, NEW key \in KeyDrafts, NEW create \in BOOLEAN, SaveNow(id, url, key, create)
  PROVE  IInv'
<1> DEFINE e == saved[id]
           draft == [url |-> url, model |-> TRUE, key |-> StoredKey(e, url, key)]
           next == [saved EXCEPT ![id] = draft]
           wanted == KeyFileAction(e, url, key)
<1>1. saved \in [Ids -> Stored] /\ e \in Stored BY DEF IInv, Types
<1>2. ~Refused(e, key, create) /\ Start("save", id, next, wanted, url) BY DEF SaveNow
<1>3. /\ draft \in Stored /\ wanted \in {Keep, Put, Remove} /\ draft.url = url
      /\ HoldsLiteralKey(draft) => wanted = Put \/ (wanted = Keep /\ HoldsLiteralKey(e) /\ e.url = url)
  BY <1>1, <1>2, DraftStores DEF HoldsLiteralKey
<1> HIDE DEF draft, wanted
<1>4. next \in [Ids -> Stored] /\ next[id] = draft /\ \A i \in Ids \ {id} : next[i] = saved[i]
  BY <1>1, <1>3
<1> HIDE DEF next
<1> DEFINE step == IF wanted = Keep THEN "write" ELSE "file"
<1>5. op' = [kind |-> "save", id |-> id, next |-> next, file |-> wanted, url |-> url, puts |-> {}, step |-> step]
      /\ UNCHANGED <<saved, keys, endpoints, request, sent, old, told>>
  BY <1>2 DEF Start
<1>6. url \in KnownUrls BY DEF KnownUrls
<1>7. op' \in Ops BY <1>3, <1>4, <1>5, <1>6 DEF Ops
<1>8. /\ op'.kind = "save" /\ op'.id = id /\ op'.next = next /\ op'.file = wanted /\ op'.url = url /\ op'.step = step
  BY <1>5
<1>9. step = "file" => wanted # Keep BY DEF Keep
<1>10. wanted = Put => step # "write" BY DEF Keep, Put
<1>11. ChangesOne' BY <1>3, <1>4, <1>5, <1>6, <1>8, <1>9, <1>10 DEF ChangesOne, Held
<1>12. OpInv' BY <1>8, <1>11 DEF OpInv
<1> QED BY <1>5, <1>7, <1>12, Begins

LEMMA RemoveBegins ==
  ASSUME IInv, RemoveEndpoint
  PROVE  IInv'
<1>1. op = Idle /\ saved \in [Ids -> Stored] BY DEF RemoveEndpoint, Calls, IInv, Types
<1>2. PICK id \in Ids :
        /\ saved[id] # NoEndpoint
        /\ Start("remove", id, [saved EXCEPT ![id] = NoEndpoint],
                 IF saved[id].key.kind = "literal" THEN Remove ELSE Keep, saved[id].url)
  BY DEF RemoveEndpoint
<1> DEFINE next == [saved EXCEPT ![id] = NoEndpoint]
           wanted == IF saved[id].key.kind = "literal" THEN Remove ELSE Keep
           step == IF wanted = Keep THEN "write" ELSE "file"
<1>3. saved[id].url \in KnownUrls BY <1>1, <1>2 DEF Stored
<1>4. next \in [Ids -> Stored] /\ next[id] = NoEndpoint /\ \A i \in Ids \ {id} : next[i] = saved[i]
  BY <1>1 DEF Stored
<1>5. op' = [kind |-> "remove", id |-> id, next |-> next, file |-> wanted, url |-> saved[id].url, puts |-> {}, step |-> step]
      /\ UNCHANGED <<saved, keys, endpoints, request, sent, old, told>>
  BY <1>2 DEF Start
<1>6. wanted \in {Keep, Put, Remove} /\ (step = "file" => wanted # Keep) /\ step \in {"file", "write"} OBVIOUS
<1> HIDE DEF next, wanted, step
<1>7. op' \in Ops BY <1>3, <1>4, <1>5, <1>6 DEF Ops
<1>8. op'.kind = "remove" /\ op'.id = id /\ op'.next = next /\ op'.file = wanted /\ op'.url = saved[id].url /\ op'.step = step
  BY <1>5
<1>9. ChangesOne' BY <1>3, <1>4, <1>5, <1>6, <1>8, NoneHolds DEF ChangesOne
<1>10. OpInv' BY <1>8, <1>9 DEF OpInv
<1> QED BY <1>1, <1>5, <1>7, <1>10, Begins

LEMMA CopyBegins ==
  ASSUME EndpointsAssumption, IInv, Copy
  PROVE  IInv'
<1> DEFINE fresh == {i \in DOMAIN Legacy : saved[i] = NoEndpoint}
           puts == {i \in fresh : Legacy[i].key /\ old.keys}
           next == [i \in Ids |-> IF i \in fresh THEN FromLegacy(i) ELSE saved[i]]
           first == CHOOSE i \in fresh : TRUE
           step == IF puts = {} THEN "write" ELSE "file"
<1>1. op = Idle /\ saved \in [Ids -> Stored] /\ UNCHANGED <<saved, keys, endpoints, request, sent, old, told>>
  BY DEF Copy, IInv, Types
<1>2. CASE fresh = {}
  <2>1. op' = op BY <1>2 DEF Copy
  <2>2. Types' BY <1>1, <2>1 DEF IInv, Types
  <2> QED BY <1>1, <2>1, <2>2 DEF IInv, OpInv, SavedInv, KeyStaysHome, Touched, Held
<1>3. CASE fresh # {}
  <2>1. op' = [kind |-> "copy", id |-> first, next |-> next, file |-> Put, url |-> "", puts |-> puts, step |-> step]
    BY <1>3 DEF Copy
  <2>2. fresh \subseteq Ids /\ fresh \subseteq DOMAIN Legacy /\ first \in fresh /\ \A i \in fresh : saved[i] = NoEndpoint
    BY <1>3 DEF EndpointsAssumption
  <2>3. ASSUME NEW i \in fresh
        PROVE  /\ FromLegacy(i) \in Stored
               /\ HoldsLiteralKey(FromLegacy(i)) => FromLegacy(i).url = Legacy[i].url /\ i \in puts
    <3> DEFINE k == IF Legacy[i].key /\ old.keys THEN Literal(TRUE) ELSE None
    <3>1. FromLegacy(i) = [url |-> Legacy[i].url, model |-> Legacy[i].model, key |-> k] BY DEF FromLegacy
    <3>2. k \in KeyFields BY DEF KeyFields
    <3>3. k.kind = "literal" => i \in puts BY DEF None
    <3> HIDE DEF k, puts
    <3>4. Legacy[i].url \in KnownUrls /\ Legacy[i].model \in BOOLEAN BY <2>2 DEF KnownUrls, EndpointsAssumption
    <3> QED BY <3>1, <3>2, <3>3, <3>4 DEF Stored, HoldsLiteralKey
  <2>4. puts \subseteq fresh /\ (step = "write" => puts = {}) /\ step \in {"file", "write"} OBVIOUS
  <2> HIDE DEF fresh, puts, first, step
  <2>5. next \in [Ids -> Stored] /\ \A i \in Ids : next[i] = IF i \in fresh THEN FromLegacy(i) ELSE saved[i]
    BY <1>1, <2>3
  <2> HIDE DEF next
  <2>6. op' \in Ops BY <2>1, <2>2, <2>4, <2>5 DEF Ops
  <2>7. op'.kind = "copy" /\ op'.file = Put /\ op'.step = step /\ op'.puts = puts /\ op'.next = next BY <2>1
  <2>8. \A i \in Ids : op'.next[i] = saved'[i] \/ Adds(i)'
    BY <1>1, <2>2, <2>3, <2>5, <2>7 DEF Adds
  <2>9. Copies' BY <1>1, <2>2, <2>4, <2>7, <2>8 DEF Copies
  <2>10. OpInv' BY <2>7, <2>9 DEF OpInv
  <2> QED BY <1>1, <2>6, <2>10, Begins
<1> QED BY <1>2, <1>3

-----------------------------------------------------------------------------
(***************************************************************************)
(* Its steps, and its end.                                                 *)
(***************************************************************************)
\* What one call to the host does to the key file.
LEMMA FileStep ==
  ASSUME EndpointsAssumption, IInv, op # Idle, op.step = "file", NEW i \in Targets
  PROVE  /\ op \in Ops /\ i \in Ids /\ FileChange(i) \in File
         /\ op.kind = "copy" => /\ saved[i] = NoEndpoint /\ i \in op.puts
                                /\ FileChange(i) # NoKey /\ FileChange(i).url = Legacy[i].url
         /\ op.kind # "copy" => /\ i = op.id
                                /\ op.file = Put => FileChange(i) # NoKey /\ FileChange(i).url = op.url
<1>1. op \in Ops BY DEF IInv, Types
<1>2. CASE op.kind = "copy"
  <2>1. i \in op.puts /\ Copies BY <1>2 DEF Targets, IInv, OpInv
  <2>2. saved[i] = NoEndpoint /\ i \in DOMAIN Legacy /\ op.file # Remove BY <2>1 DEF Copies, Put, Remove
  <2>3. FileChange(i) = KeyOf(Legacy[i].url) BY <1>2, <2>2 DEF FileChange, KeyOf
  <2>4. Legacy[i].url \in KnownUrls /\ i \in Ids BY <2>2 DEF KnownUrls, EndpointsAssumption
  <2> QED BY <1>1, <1>2, <2>1, <2>2, <2>3, <2>4, KeysKnown
<1>3. CASE op.kind # "copy"
  <2>1. i = op.id /\ op.url \in KnownUrls BY <1>3 DEF Targets, IInv, OpInv, ChangesOne
  <2>2. FileChange(i) = IF op.file = Remove THEN NoKey ELSE KeyOf(op.url) BY <1>3 DEF FileChange, KeyOf
  <2>3. NoKey \in File /\ Put # Remove /\ op.id \in Ids BY <1>1 DEF File, Put, Remove, Ops
  <2> QED BY <1>1, <1>3, <2>1, <2>2, <2>3, KeysKnown
<1> QED BY <1>2, <1>3

LEMMA WriteFileKeeps ==
  ASSUME EndpointsAssumption, IInv, WriteFile
  PROVE  IInv'
<1>1. op # Idle /\ op.step = "file" /\ UNCHANGED <<saved, endpoints, request, sent, old, told>>
  BY DEF WriteFile, NotChanged
<1>2. PICK i \in Targets :
        /\ keys' = [keys EXCEPT ![i] = FileChange(i)]
        /\ op' = [op EXCEPT !.puts = @ \ {i}, !.step = IF Targets = {i} THEN "write" ELSE "file"]
  BY DEF WriteFile
<1>3. /\ op \in Ops /\ i \in Ids /\ FileChange(i) \in File
      /\ op.kind = "copy" => /\ saved[i] = NoEndpoint /\ i \in op.puts
                             /\ FileChange(i) # NoKey /\ FileChange(i).url = Legacy[i].url
      /\ op.kind # "copy" => /\ i = op.id
                             /\ op.file = Put => FileChange(i) # NoKey /\ FileChange(i).url = op.url
  BY <1>1, FileStep
<1> DEFINE step == IF Targets = {i} THEN "write" ELSE "file"
<1>4. step \in {"file", "write"} /\ (step = "write" => Targets = {i}) OBVIOUS
<1> HIDE DEF step
<1>5. op' = [op EXCEPT !.puts = op.puts \ {i}, !.step = step]
  BY <1>2, <1>3 DEF step, Ops
<1>6. /\ op' \in Ops /\ op'.kind = op.kind /\ op'.id = op.id /\ op'.next = op.next /\ op'.file = op.file
      /\ op'.url = op.url /\ op'.puts = op.puts \ {i} /\ op'.step = step
  BY <1>3, <1>4, <1>5 DEF Ops
<1>7. keys \in [Ids -> File] /\ saved \in [Ids -> Stored] BY DEF IInv, Types
<1>8. keys' \in [Ids -> File] /\ \A j \in Ids : keys'[j] = IF j = i THEN FileChange(i) ELSE keys[j]
  BY <1>2, <1>3, <1>7
<1>9. Types' BY <1>1, <1>6, <1>8 DEF IInv, Types
<1>10. CASE op.kind = "copy"
  <2>1. Copies BY <1>1, <1>10 DEF IInv, OpInv
  <2>2. step = "write" => op'.puts = {} BY <1>4, <1>6, <1>10 DEF Targets
  <2>3. \A j \in Ids : op.next[j] = saved[j] \/ Adds(j) BY <2>1 DEF Copies
  <2>4. ASSUME NEW j \in Ids PROVE op'.next[j] = saved'[j] \/ Adds(j)'
    <3>1. CASE op.next[j] = saved[j] BY <1>1, <1>6, <3>1
    <3>2. CASE Adds(j)
      <4>1. CASE j = i BY <1>1, <1>3, <1>6, <1>8, <1>10, <3>2, <4>1 DEF Adds, Held
      <4>2. CASE j # i BY <1>1, <1>6, <1>8, <3>2, <4>2 DEF Adds, Held
      <4> QED BY <4>1, <4>2
    <3> QED BY <2>3, <3>1, <3>2
  <2>5. Copies' BY <1>1, <1>4, <1>6, <2>1, <2>2, <2>4 DEF Copies
  <2>6. OpInv' BY <1>6, <1>10, <2>5 DEF OpInv
  <2>7. SavedInv'
    <3> SUFFICES ASSUME NEW j \in Ids, HoldsLiteralKey(saved[j]), j \notin told PROVE Held(j, saved[j].url)'
      BY <1>1 DEF SavedInv
    <3>1. j # i BY <1>3, <1>10, NoneHolds
    <3>2. Held(j, saved[j].url) BY <1>10 DEF IInv, SavedInv, Touched
    <3> QED BY <1>1, <1>8, <3>1, <3>2 DEF Held
  <2> QED BY <1>1, <1>9, <2>6, <2>7 DEF IInv, KeyStaysHome
<1>11. CASE op.kind # "copy"
  <2>1. ChangesOne BY <1>1, <1>11 DEF IInv, OpInv
  <2>2. i = op.id /\ step = "write" BY <1>3, <1>11 DEF step, Targets
  <2>3. op.file # Keep BY <1>1, <2>1 DEF ChangesOne
  <2>4. op.file = Put => Held(op.id, op.url)' BY <1>3, <1>6, <1>8, <1>11, <2>2 DEF Held
  <2>5. ChangesOne' BY <1>1, <1>6, <2>1, <2>2, <2>3, <2>4 DEF ChangesOne
  <2>6. OpInv' BY <1>6, <1>11, <2>5 DEF OpInv
  <2>7. SavedInv'
    <3> SUFFICES ASSUME NEW j \in Ids, HoldsLiteralKey(saved[j]), j \notin told, ~Touched(j)' PROVE Held(j, saved[j].url)'
      BY <1>1 DEF SavedInv
    <3>1. op' # Idle BY <1>6, OpsAreNotIdle
    <3>2. j # op.id BY <1>6, <1>11, <2>2, <2>3, <3>1 DEF Touched
    <3>3. Held(j, saved[j].url) BY <1>1, <3>2 DEF IInv, SavedInv, Touched
    <3> QED BY <1>1, <1>8, <2>2, <3>2, <3>3 DEF Held
  <2> QED BY <1>1, <1>9, <2>6, <2>7 DEF IInv, KeyStaysHome
<1> QED BY <1>10, <1>11

\* An operation that fails or is cut off leaves the list, and is told of unless it was the
\* copy, which has Endpoints to add only.
LEMMA EndsUndone ==
  ASSUME IInv, op # Idle, op' = Idle, UNCHANGED <<saved, sent>>,
         endpoints' \in [Ids -> Stored], request' \in [id : Ids, e : Stored] \cup {Idle}, UNCHANGED old,
         keys' \in [Ids -> File],
         \A i \in Ids : keys'[i] = keys[i] \/ IF op.kind = "copy" THEN saved[i] = NoEndpoint ELSE i = op.id,
         told \subseteq told', op.kind # "copy" => op.id \in told'
  PROVE  IInv'
<1>1. Types' BY DEF IInv, Types
<1>2. OpInv' BY DEF OpInv
<1>3. SavedInv'
  <2> SUFFICES ASSUME NEW i \in Ids, HoldsLiteralKey(saved[i]), i \notin told' PROVE Held(i, saved[i].url)'
    BY DEF SavedInv
  <2>1. keys'[i] = keys[i] BY NoneHolds
  <2>2. ~Touched(i) BY DEF Touched
  <2>3. Held(i, saved[i].url) BY <2>2 DEF IInv, SavedInv
  <2> QED BY <2>1, <2>3 DEF Held
<1>4. KeyStaysHome' BY DEF IInv, KeyStaysHome
<1> QED BY <1>1, <1>2, <1>3, <1>4 DEF IInv

LEMMA FileMade ==
  ASSUME EndpointsAssumption, IInv, op # Idle, op.step = "file", NEW i \in Targets, NEW made \in BOOLEAN,
         keys' = IF made THEN [keys EXCEPT ![i] = FileChange(i)] ELSE keys
  PROVE  /\ keys' \in [Ids -> File]
         /\ \A j \in Ids : keys'[j] = keys[j] \/ IF op.kind = "copy" THEN saved[j] = NoEndpoint ELSE j = op.id
<1>1. keys \in [Ids -> File] BY DEF IInv, Types
<1>2. i \in Ids /\ FileChange(i) \in File /\ IF op.kind = "copy" THEN saved[i] = NoEndpoint ELSE i = op.id
  BY FileStep
<1>3. CASE made BY <1>1, <1>2, <1>3
<1>4. CASE ~made BY <1>1, <1>4
<1> QED BY <1>3, <1>4

LEMMA FailFileKeeps ==
  ASSUME EndpointsAssumption, IInv, FailFile
  PROVE  IInv'
<1>1. op # Idle /\ op.step = "file" /\ EndFailed /\ UNCHANGED <<saved, endpoints, request, sent, old>>
  BY DEF FailFile, NotChanged
<1>2. PICK i \in Targets, made \in BOOLEAN : keys' = IF made THEN [keys EXCEPT ![i] = FileChange(i)] ELSE keys
  BY DEF FailFile
<1>3. /\ keys' \in [Ids -> File]
      /\ \A j \in Ids : keys'[j] = keys[j] \/ IF op.kind = "copy" THEN saved[j] = NoEndpoint ELSE j = op.id
  BY <1>1, <1>2, FileMade
<1>4. op' = Idle /\ told \subseteq told' /\ (op.kind # "copy" => op.id \in told') BY <1>1 DEF EndFailed
<1>5. endpoints' \in [Ids -> Stored] /\ request' \in [id : Ids, e : Stored] \cup {Idle} BY <1>1 DEF IInv, Types
<1> QED BY <1>1, <1>3, <1>4, <1>5, EndsUndone

LEMMA FailListKeeps ==
  ASSUME EndpointsAssumption, IInv, FailList
  PROVE  IInv'
<1>1. op # Idle /\ op.step = "write" /\ UNCHANGED <<saved, endpoints, keys, request, sent, old>>
  BY DEF FailList, NotChanged
<1>2. op \in Ops BY <1>1 DEF IInv, Types
<1>3. CASE EndFailed
  <2>1. op' = Idle /\ told \subseteq told' /\ (op.kind # "copy" => op.id \in told') BY <1>3 DEF EndFailed
  <2>2. /\ endpoints' \in [Ids -> Stored] /\ request' \in [id : Ids, e : Stored] \cup {Idle}
        /\ keys' \in [Ids -> File] /\ \A j \in Ids : keys'[j] = keys[j]
    BY <1>1 DEF IInv, Types
  <2> QED BY <1>1, <2>1, <2>2, EndsUndone
<1>4. CASE op.kind = "save" /\ op' = [op EXCEPT !.step = "undo"] /\ UNCHANGED told
  <2>1. /\ op' \in Ops /\ op'.kind = op.kind /\ op'.id = op.id /\ op'.next = op.next /\ op'.file = op.file
        /\ op'.url = op.url /\ op'.step = "undo"
    BY <1>2, <1>4 DEF Ops
  <2>2. Types' BY <1>1, <2>1 DEF IInv, Types
  <2>3. ChangesOne BY <1>1, <1>4 DEF IInv, OpInv
  <2>4. ChangesOne' BY <1>1, <2>1, <2>3 DEF ChangesOne
  <2>5. OpInv' BY <1>4, <2>1, <2>4 DEF OpInv
  <2>6. \A i \in Ids : ~Touched(i)' /\ op' # Idle => ~Touched(i) BY <1>1, <2>1 DEF Touched
  <2>7. op' # Idle BY <2>1, OpsAreNotIdle
  <2>8. SavedInv' BY <1>1, <1>4, <2>6, <2>7 DEF IInv, SavedInv, Held
  <2> QED BY <1>1, <2>2, <2>5, <2>8 DEF IInv, KeyStaysHome
<1> QED BY <1>3, <1>4 DEF FailList

LEMMA UndoPutKeeps ==
  ASSUME IInv, UndoPut
  PROVE  IInv'
<1>1. op # Idle /\ op.step = "undo" /\ EndFailed /\ UNCHANGED <<saved, endpoints, request, sent, old>>
  BY DEF UndoPut, NotChanged
<1>2. op \in Ops /\ op.id \in Ids /\ keys \in [Ids -> File] /\ NoKey \in File BY <1>1 DEF IInv, Types, Ops, File
<1>3. op.kind # "copy" BY <1>1 DEF IInv, OpInv, Copies
<1>4. keys' = [keys EXCEPT ![op.id] = NoKey] \/ keys' = keys BY DEF UndoPut
<1>5. keys' \in [Ids -> File] /\ \A j \in Ids : keys'[j] = keys[j] \/ j = op.id BY <1>2, <1>4
<1>6. op' = Idle /\ told \subseteq told' /\ op.id \in told' BY <1>1, <1>3 DEF EndFailed
<1>7. endpoints' \in [Ids -> Stored] /\ request' \in [id : Ids, e : Stored] \cup {Idle} BY <1>1 DEF IInv, Types
<1> QED BY <1>1, <1>3, <1>5, <1>6, <1>7, EndsUndone

\* The list is stored: each Endpoint in it that is listed as having its key has it.
LEMMA WriteListKeeps ==
  ASSUME IInv, WriteList
  PROVE  IInv'
<1>1. /\ op # Idle /\ op.step = "write" /\ op' = Idle
      /\ saved' = op.next /\ endpoints' = op.next
      /\ told' = told \ {i \in Ids : op.next[i] # saved[i] /\ i \notin Kept}
      /\ UNCHANGED <<keys, request, sent, old>>
  BY DEF WriteList, Changed
<1>2. op \in Ops /\ op.next \in [Ids -> Stored] BY <1>1 DEF IInv, Types, Ops
<1>3. Types' BY <1>1, <1>2 DEF IInv, Types
<1>4. OpInv' BY <1>1 DEF OpInv
<1>5. KeyStaysHome' BY <1>1 DEF IInv, KeyStaysHome
<1>6. ASSUME NEW i \in Ids, HoldsLiteralKey(op.next[i]), i \notin told' PROVE Held(i, op.next[i].url)
  <2>1. CASE op.kind = "copy"
    <3>1. Copies BY <1>1, <2>1 DEF IInv, OpInv
    <3>2. op.puts = {} /\ op.file = Put BY <1>1, <3>1 DEF Copies
    <3>3. CASE Adds(i) BY <1>6, <3>2, <3>3 DEF Adds
    <3>4. CASE op.next[i] = saved[i]
      <4>1. i \notin told BY <1>1, <1>6, <3>4
      <4> QED BY <1>6, <2>1, <3>4, <4>1 DEF IInv, SavedInv, Touched
    <3> QED BY <3>1, <3>3, <3>4 DEF Copies
  <2>2. CASE op.kind # "copy"
    <3>1. ChangesOne BY <1>1, <2>2 DEF IInv, OpInv
    <3>2. CASE i # op.id
      <4>1. op.next[i] = saved[i] BY <3>1, <3>2 DEF ChangesOne
      <4>2. i \notin told BY <1>1, <1>6, <4>1
      <4> QED BY <1>6, <3>2, <4>1, <4>2 DEF IInv, SavedInv, Touched
    <3>3. CASE i = op.id /\ op.file = Put
      <4>1. op.next[i].url = op.url /\ Held(i, op.url) BY <1>1, <1>6, <3>1, <3>3 DEF ChangesOne, Keep, Put
      <4> QED BY <4>1
    <3>4. CASE i = op.id /\ op.file = Keep
      <4>1. HoldsLiteralKey(saved[i]) /\ saved[i].url = op.next[i].url BY <1>6, <3>1, <3>4 DEF ChangesOne, Keep, Put
      <4>2. i \in Kept BY <1>6, <3>4 DEF Kept
      <4>3. i \notin told BY <1>1, <1>6, <4>2
      <4> QED BY <3>4, <4>1, <4>3 DEF IInv, SavedInv, Touched
    <3> QED BY <1>6, <3>1, <3>2, <3>3, <3>4 DEF ChangesOne
  <2> QED BY <2>1, <2>2
<1>7. SavedInv' BY <1>1, <1>6 DEF SavedInv, Held
<1> QED BY <1>3, <1>4, <1>5, <1>7 DEF IInv

\* A stop cuts the operation off, and a call on its way is made or lost.
LEMMA RestartKeeps ==
  ASSUME EndpointsAssumption, IInv, Restart
  PROVE  IInv'
<1>1. op' = Idle /\ UNCHANGED <<saved, sent, old>> /\ endpoints' = saved /\ request' = Idle BY DEF Restart
<1>2. told' = told \cup (IF op # Idle /\ op.kind # "copy" THEN {op.id} ELSE {}) BY DEF Restart
<1>3. endpoints' \in [Ids -> Stored] /\ keys \in [Ids -> File] BY <1>1 DEF IInv, Types
<1>4. CASE op = Idle
  <2>1. keys' = keys /\ told' = told BY <1>2, <1>4 DEF Restart
  <2>2. Types' BY <1>1, <1>3, <2>1 DEF IInv, Types
  <2>3. OpInv' BY <1>1 DEF OpInv
  <2>4. SavedInv' BY <1>1, <1>4, <2>1 DEF IInv, SavedInv, Touched, Held
  <2> QED BY <1>1, <2>2, <2>3, <2>4 DEF IInv, KeyStaysHome
<1>5. CASE op # Idle
  <2>1. /\ keys' \in [Ids -> File]
        /\ \A j \in Ids : keys'[j] = keys[j] \/ IF op.kind = "copy" THEN saved[j] = NoEndpoint ELSE j = op.id
    <3>1. CASE keys' = keys BY <1>3, <3>1
    <3>2. CASE keys' # keys
      <4>1. op.step = "file" /\ \E i \in Targets : keys' = [keys EXCEPT ![i] = FileChange(i)] BY <3>2 DEF Restart
      <4>2. PICK i \in Targets : keys' = IF TRUE THEN [keys EXCEPT ![i] = FileChange(i)] ELSE keys BY <4>1
      <4> QED BY <1>5, <4>1, <4>2, FileMade
    <3> QED BY <3>1, <3>2
  <2>2. told \subseteq told' /\ (op.kind # "copy" => op.id \in told') BY <1>2, <1>5
  <2>3. request' \in [id : Ids, e : Stored] \cup {Idle} BY <1>1
  <2> QED BY <1>1, <1>3, <1>5, <2>1, <2>2, <2>3, EndsUndone
<1> QED BY <1>4, <1>5

-----------------------------------------------------------------------------
(***************************************************************************)
(* The tasks, and the theorems.                                            *)
(***************************************************************************)
\* Beside the operations the list, the key file and the operation stay.
LEMMA BesideKeeps ==
  ASSUME IInv, UNCHANGED <<saved, keys, op, endpoints, told>>,
         request' \in [id : Ids, e : Stored] \cup {Idle}, old' \in [readable : BOOLEAN, keys : BOOLEAN], KeyStaysHome'
  PROVE  IInv'
<1>1. Types' BY DEF IInv, Types
<1>2. OpInv' BY DEF IInv, OpInv, Copies, Adds, ChangesOne, Held
<1>3. SavedInv' BY DEF IInv, SavedInv, Touched, Held
<1> QED BY <1>1, <1>2, <1>3 DEF IInv

LEMMA SendTaskKeeps ==
  ASSUME IInv, SendTask
  PROVE  IInv'
<1>1. PICK id \in Ids : request' = [id |-> id, e |-> endpoints[id]] BY DEF SendTask
<1>2. UNCHANGED <<saved, keys, op, endpoints, told, old, sent>> BY DEF SendTask
<1>3. request' \in [id : Ids, e : Stored] BY <1>1 DEF IInv, Types
<1> QED BY <1>2, <1>3, BesideKeeps DEF IInv, Types, KeyStaysHome

\* The host sends a literal key on only with the URL it holds the key for.
LEMMA HandleTaskKeeps ==
  ASSUME IInv, HandleTask
  PROVE  IInv'
<1>1. request # Idle /\ request' = Idle /\ UNCHANGED <<saved, keys, op, endpoints, told, old>> BY DEF HandleTask
<1>2. request.id \in Ids /\ keys \in [Ids -> File] BY <1>1 DEF IInv, Types
<1> DEFINE e == request.e
           key == HeldKey(request.id, e)
<1>3. sent' = [url |-> e.url, key |-> key] \/ sent' = Idle BY DEF HandleTask
<1>4. key # NoKey => key = e.url
  <2> SUFFICES ASSUME key # NoKey PROVE key = e.url OBVIOUS
  <2>1. keys[request.id] # NoKey /\ keys[request.id].url = e.url /\ key = keys[request.id].key BY DEF HeldKey
  <2>2. PICK url \in KnownUrls : keys[request.id] = KeyOf(url) BY <1>2, <2>1 DEF File
  <2> QED BY <2>1, <2>2 DEF KeyOf
<1> HIDE DEF e, key
<1>5. KeyStaysHome' BY <1>3, <1>4 DEF KeyStaysHome
<1> QED BY <1>1, <1>5, BesideKeeps DEF IInv, Types

LEMMA InitInv == ASSUME EndpointsAssumption, EndpointsInit PROVE IInv
<1>1. NoEndpoint \in Stored /\ NoKey \in File BY DEF Stored, File
<1>2. Types
  <2>1. old \in [readable : BOOLEAN, keys : BOOLEAN] BY DEF EndpointsInit
  <2> QED BY <1>1, <2>1 DEF EndpointsInit, Types
<1>3. OpInv /\ KeyStaysHome BY DEF EndpointsInit, OpInv, KeyStaysHome
<1>4. SavedInv BY NoneHolds DEF EndpointsInit, SavedInv
<1> QED BY <1>2, <1>3, <1>4 DEF IInv

LEMMA NextInv == ASSUME EndpointsAssumption, IInv, [EndpointsNext]_vars PROVE IInv'
<1>1. saved \in [Ids -> Stored] BY DEF IInv, Types
<1>2. CASE SaveCard
  <2>1. PICK id \in Ids, url \in Urls, key \in KeyDrafts, create \in BOOLEAN : SaveNow(id, url, key, create)
    BY <1>2 DEF SaveCard
  <2>2. op = Idle BY <1>2 DEF SaveCard, Calls
  <2> QED BY <2>1, <2>2, SaveBegins
<1>3. CASE SetByCommand
  <2>1. PICK id \in Ids, url \in Urls, given \in {None} \cup {Variable(v) : v \in Variables} :
          SaveNow(id, url, CommandKey(saved[id], given), saved[id] = NoEndpoint)
    BY <1>3 DEF SetByCommand
  <2>2. op = Idle BY <1>3 DEF SetByCommand, Calls
  <2>3. CommandKey(saved[id], given) \in KeyDrafts BY <1>1, CommandDrafts
  <2>4. (saved[id] = NoEndpoint) \in BOOLEAN OBVIOUS
  <2> QED BY <2>1, <2>2, <2>3, <2>4, SaveBegins
<1>4. CASE ClearOldKeys \/ StoreCopied \/ Again \/ ReportArrives \/ SendAgain
  <2>1. UNCHANGED <<saved, keys, op, endpoints, told, request, sent>>
    BY <1>4 DEF ClearOldKeys, StoreCopied, Again, ReportArrives, SendAgain, NotChanged
  <2>2. old \in [readable : BOOLEAN, keys : BOOLEAN] BY DEF IInv, Types
  <2>3. old' = old \/ old' = [old EXCEPT !.keys = FALSE] \/ old' = [old EXCEPT !.readable = TRUE]
    BY <1>4 DEF ClearOldKeys, StoreCopied, Again, ReportArrives, SendAgain
  <2>4. old' \in [readable : BOOLEAN, keys : BOOLEAN] BY <2>2, <2>3
  <2> QED BY <2>1, <2>4, BesideKeeps DEF IInv, Types, KeyStaysHome
<1>5. CASE UNCHANGED vars BY <1>5, BesideKeeps DEF vars, IInv, Types, KeyStaysHome
<1> QED
  BY <1>2, <1>3, <1>4, <1>5, RemoveBegins, CopyBegins, WriteFileKeeps, FailFileKeeps, WriteListKeeps, FailListKeeps,
     UndoPutKeeps, RestartKeeps, SendTaskKeeps, HandleTaskKeeps
  DEF EndpointsNext

LEMMA Inductive == EndpointsAssumption => (EndpointsSpec => []IInv)
<1> SUFFICES ASSUME EndpointsAssumption PROVE EndpointsSpec => []IInv OBVIOUS
<1>1. EndpointsInit => IInv BY InitInv
<1>2. IInv /\ [EndpointsNext]_vars => IInv' BY NextInv
<1> QED BY <1>1, <1>2, PTL DEF EndpointsSpec

\* A literal key is sent to no URL but the one it was typed for, wherever the two writes of a change were
\* cut off and however old the Endpoint a task carries (handlers.ts, complete; manage.ts, saveNow).
THEOREM KeysStayHome == EndpointsAssumption => (EndpointsSpec => []KeyStaysHome)
<1>1. IInv => KeyStaysHome BY DEF IInv
<1> QED BY <1>1, Inductive, PTL

\* An Endpoint listed as having its key has it on the host, for its URL, once no operation runs, unless a
\* change of it failed or was cut off (manage.ts, saveNow, set, remove and copy).
THEOREM ListedKeysAreHeld == EndpointsAssumption => (EndpointsSpec => []SetMeansHeld)
<1>1. IInv => SetMeansHeld BY DEF IInv, SavedInv, SetMeansHeld, Touched, Held
<1> QED BY <1>1, Inductive, PTL

-----------------------------------------------------------------------------
(***************************************************************************)
(* Completion.                                                             *)
(***************************************************************************)
Task == [step : {"asks", "saves"}, place : Places, learned : SUBSET Optional,
         dropped : SUBSET Optional, first : BOOLEAN, changed : BOOLEAN, asked : Nat]

Taughts == [Places -> SUBSET Optional]

CTypes ==
  /\ fields \in Taughts \cup {Unread} /\ file \in Taughts /\ refuses \in Taughts
  /\ tasks \in [Tasks -> Task \cup {NoTask}]
  /\ version \in [Places -> Nat \ {0}] /\ source \in [Places -> Nat]

\* What a place refuses is held, where the server as it is taught it.
Teaches(known, p) == known[p] # {} /\ source[p] = version[p] => refuses[p] \subseteq known[p]
Taught == \A p \in Places : source[p] <= version[p] /\ Teaches(Known, p)

\* Only a worker that read its file runs tasks.
Runs == fields = Unread => \A t \in Tasks : tasks[t] = NoTask

\* Each request after the second leaves out at least one field more.
Fewer(task) ==
  /\ task.first => task.asked = 1
  /\ ~task.first => task.asked <= 2 + Cardinality(task.dropped)

CInv == CTypes /\ Taught /\ Runs /\ \A t \in Tasks : tasks[t] # NoTask => Fewer(tasks[t])

LEMMA KnownIs ==
  ASSUME CompletionAssumption, CTypes
  PROVE  Known \in Taughts /\ Known # Unread
BY DEF CompletionAssumption, CTypes, Known, Taughts

\* A task that asks or saves is one, and the worker has read its file.
LEMMA Asking ==
  ASSUME CompletionAssumption, CInv, NEW t \in Tasks, tasks[t].step \in {"asks", "saves"}
  PROVE  /\ tasks[t] \in Task /\ Fewer(tasks[t])
         /\ fields \in Taughts /\ Known = fields
<1>1. tasks[t] # NoTask BY DEF NoTask
<1>2. tasks[t] \in Task BY <1>1 DEF CInv, CTypes
<1> QED BY <1>1, <1>2 DEF CInv, CTypes, Runs, Known

LEMMA EndingIs ==
  ASSUME NEW task \in Task, Fewer(task)
  PROVE  /\ Ending(task) \in Task \cup {NoTask}
         /\ Ending(task) # NoTask => Fewer(Ending(task))
<1> DEFINE saves == [task EXCEPT !.step = "saves"]
<1>1. saves \in Task BY DEF Task
<1>2. saves.first = task.first /\ saves.asked = task.asked /\ saves.dropped = task.dropped
  BY DEF Task
<1> HIDE DEF saves
<1>3. Fewer(saves) BY <1>2 DEF Fewer
<1>4. Ending(task) = saves \/ Ending(task) = NoTask BY DEF Ending, saves
<1> QED BY <1>1, <1>3, <1>4

\* What the next request leaves out is more than the last left out, or nothing after the first.
LEMMA DropsMore ==
  ASSUME CompletionAssumption, NEW task \in Task, NEW named \in Names,
         ~(~Forgets(task, named) /\ Sent(task) = {})
  PROVE  /\ DropNext(task, named) \subseteq Optional
         /\ ~task.first => Cardinality(DropNext(task, named)) >= Cardinality(task.dropped) + 1
         /\ Cardinality(DropNext(task, named)) \in Nat /\ Cardinality(task.dropped) \in Nat
<1>1. task.dropped \subseteq Optional BY DEF Task
<1>2. DropNext(task, named) \subseteq Optional BY <1>1 DEF DropNext, Sent
<1>3. IsFiniteSet(DropNext(task, named)) /\ IsFiniteSet(task.dropped)
  BY <1>1, <1>2, FS_Subset DEF CompletionAssumption
<1>4. ASSUME ~task.first
      PROVE  Cardinality(DropNext(task, named)) >= Cardinality(task.dropped) + 1
  <2>1. ~Forgets(task, named) BY <1>4 DEF Forgets
  <2>2. Sent(task) # {} BY <2>1
  <2>3. task.dropped \subseteq DropNext(task, named) /\ task.dropped # DropNext(task, named)
    BY <2>1, <2>2 DEF DropNext, Sent
  <2>4. /\ Cardinality(task.dropped) <= Cardinality(DropNext(task, named))
        /\ Cardinality(task.dropped) # Cardinality(DropNext(task, named))
    BY <1>3, <2>3, FS_Subset
  <2>5. Cardinality(task.dropped) \in Nat /\ Cardinality(DropNext(task, named)) \in Nat
    BY <1>3, FS_CardinalityType
  <2> QED BY <2>4, <2>5
<1> QED BY <1>2, <1>3, <1>4, FS_CardinalityType

\* Both ways the server refuses.
LEMMA RefusedKeeps ==
  ASSUME CompletionAssumption, CInv, NEW t \in Tasks, NEW named \in Names,
         tasks[t].step = "asks", RefusedAnswer(t, named), UNCHANGED <<file, refuses, version>>
  PROVE  CInv'
<1> DEFINE task == tasks[t]
           again == [task EXCEPT !.dropped = DropNext(task, named), !.first = FALSE,
                                 !.asked = @ + 1, !.changed = @ \/ Forgets(task, named)]
<1>1. task \in Task /\ Fewer(task) /\ fields \in Taughts /\ Known = fields BY Asking
<1>2. task.place \in Places BY <1>1 DEF Task
<1>3. tasks' = [tasks EXCEPT ![t] = IF ~Forgets(task, named) /\ Sent(task) = {} THEN Ending(task) ELSE again]
  BY DEF RefusedAnswer
<1>4. \/ fields' = fields /\ source' = source
      \/ /\ fields' = [fields EXCEPT ![task.place] = {}]
         /\ source' = [source EXCEPT ![task.place] = version[task.place]]
  BY DEF RefusedAnswer
<1>5. ASSUME ~(~Forgets(task, named) /\ Sent(task) = {})
      PROVE  again \in Task /\ Fewer(again)
  <2>1. DropNext(task, named) \subseteq Optional BY <1>1, <1>5, DropsMore
  <2>2. Forgets(task, named) \in BOOLEAN BY DEF Forgets
  <2>3. again \in Task
    <3>1. (task.changed \/ Forgets(task, named)) \in BOOLEAN OBVIOUS
    <3>2. task.asked + 1 \in Nat BY <1>1 DEF Task
    <3>3. again = [task EXCEPT !.dropped = DropNext(task, named), !.first = FALSE,
                   !.asked = task.asked + 1, !.changed = task.changed \/ Forgets(task, named)]
      BY <1>1 DEF Task
    <3> HIDE DEF again
    <3> QED BY <1>1, <2>1, <3>1, <3>2, <3>3 DEF Task
  <2>4. again.dropped = DropNext(task, named) /\ again.first = FALSE /\ again.asked = task.asked + 1
    BY <1>1 DEF Task
  <2>5. task.asked \in Nat /\ task.first \in BOOLEAN BY <1>1 DEF Task
  <2>6. again.asked <= 2 + Cardinality(again.dropped)
    <3>1. Cardinality(DropNext(task, named)) \in Nat /\ Cardinality(task.dropped) \in Nat
      BY <1>1, <1>5, DropsMore
    <3>2. CASE task.first BY <1>1, <2>4, <3>1, <3>2 DEF Fewer
    <3>3. CASE ~task.first
      <4>1. Cardinality(DropNext(task, named)) >= Cardinality(task.dropped) + 1
        BY <1>1, <1>5, <3>3, DropsMore
      <4>2. task.asked <= 2 + Cardinality(task.dropped) BY <1>1, <3>3 DEF Fewer
      <4> QED BY <2>4, <2>5, <3>1, <4>1, <4>2
    <3> QED BY <3>2, <3>3
  <2> QED BY <2>3, <2>4, <2>6 DEF Fewer
<1> HIDE DEF again
<1>6. tasks'[t] \in Task \cup {NoTask} /\ (tasks'[t] # NoTask => Fewer(tasks'[t]))
  BY <1>1, <1>3, <1>5, EndingIs DEF CInv, CTypes
<1>7. CTypes' /\ fields' \in Taughts
  <2>1. tasks' \in [Tasks -> Task \cup {NoTask}] BY <1>3, <1>6 DEF CInv, CTypes
  <2>2. fields' \in Taughts BY <1>1, <1>2, <1>4 DEF Taughts
  <2>3. source' \in [Places -> Nat] BY <1>2, <1>4 DEF CInv, CTypes
  <2> QED BY <2>1, <2>2, <2>3 DEF CInv, CTypes
<1>8. Known' = fields' /\ Runs' BY <1>7 DEF Known, Runs, CompletionAssumption, Taughts
<1>9. Taught'
  <2> SUFFICES ASSUME NEW p \in Places PROVE (source[p] <= version[p] /\ Teaches(Known, p))'
    BY DEF Taught
  <2>1. source[p] <= version[p] /\ Teaches(fields, p) BY <1>1 DEF CInv, Taught
  <2>2. version[p] \in Nat BY DEF CInv, CTypes
  <2>3. CASE fields'[p] = fields[p] /\ source'[p] = source[p]
    BY <1>8, <2>1, <2>3 DEF Teaches
  <2>4. CASE fields'[p] = {} /\ source'[p] = version[p] BY <1>8, <2>2, <2>4 DEF Teaches
  <2> QED BY <1>1, <1>2, <1>4, <2>3, <2>4 DEF CInv, CTypes, Taughts
<1>10. (\A s \in Tasks : tasks[s] # NoTask => Fewer(tasks[s]))'
  <2>1. \A s \in Tasks \ {t} : tasks'[s] = tasks[s] BY <1>3 DEF CInv, CTypes
  <2> QED BY <1>6, <2>1 DEF CInv, Fewer
<1> QED BY <1>7, <1>8, <1>9, <1>10 DEF CInv

\* A step after which a task of a worker that read its file is `next`.
LEMMA TaskKeeps ==
  ASSUME CompletionAssumption, CInv, NEW t \in Tasks, NEW next \in Task \cup {NoTask},
         next # NoTask => Fewer(next), tasks' = [tasks EXCEPT ![t] = next],
         fields' \in Taughts, file' \in Taughts, source' \in [Places -> Nat],
         UNCHANGED <<refuses, version>>,
         \A p \in Places :
           \/ fields'[p] = Known[p] /\ source'[p] = source[p]
           \/ refuses[p] \subseteq fields'[p] /\ source'[p] = version[p]
  PROVE  CInv'
<1>1. CTypes' BY DEF CInv, CTypes
<1>2. Known' = fields' /\ Runs' BY DEF Known, Runs, CompletionAssumption, Taughts
<1>3. Taught'
  <2> SUFFICES ASSUME NEW p \in Places PROVE (source[p] <= version[p] /\ Teaches(Known, p))'
    BY DEF Taught
  <2>1. source[p] <= version[p] /\ Teaches(Known, p) BY DEF CInv, Taught
  <2>2. version[p] \in Nat BY DEF CInv, CTypes
  <2> QED BY <1>2, <2>1, <2>2 DEF Teaches
<1>4. (\A s \in Tasks : tasks[s] # NoTask => Fewer(tasks[s]))'
  BY DEF CInv, CTypes, Fewer
<1> QED BY <1>1, <1>2, <1>3, <1>4 DEF CInv

LEMMA BeginKeeps ==
  ASSUME CompletionAssumption, CInv, NEW t \in Tasks, BeginTask(t) PROVE CInv'
<1>1. PICK p \in Places :
        tasks' = [tasks EXCEPT ![t] =
                    [step |-> "asks", place |-> p, learned |-> Known[p],
                     dropped |-> Known[p], first |-> TRUE, changed |-> FALSE, asked |-> 1]]
  BY DEF BeginTask
<1> DEFINE next == [step |-> "asks", place |-> p, learned |-> Known[p],
                    dropped |-> Known[p], first |-> TRUE, changed |-> FALSE, asked |-> 1]
<1>2. Known \in Taughts BY KnownIs DEF CInv
<1>3. next \in Task BY <1>2 DEF Task, Taughts
<1>4. Fewer(next) BY DEF Fewer
<1>5. tasks' = [tasks EXCEPT ![t] = next] BY <1>1
<1> HIDE DEF next
<1>6. fields' = Known /\ UNCHANGED <<file, refuses, version, source>> BY DEF BeginTask
<1> QED BY <1>2, <1>3, <1>4, <1>5, <1>6, TaskKeeps DEF CInv, CTypes

LEMMA FailKeeps == ASSUME CompletionAssumption, CInv, NEW t \in Tasks, Fail(t) PROVE CInv'
<1>1. tasks[t] \in Task /\ Fewer(tasks[t]) /\ fields \in Taughts /\ Known = fields
  BY Asking DEF Fail
<1>2. fields' = fields /\ UNCHANGED <<file, refuses, version, source>> BY DEF Fail, AfterFailure
<1>3. tasks' = [tasks EXCEPT ![t] = Ending(tasks[t])] BY DEF Fail
<1> QED BY <1>1, <1>2, <1>3, EndingIs, TaskKeeps DEF CInv, CTypes

\* The server refused none of what was sent: what it refuses is left out.
LEMMA SucceedKeeps == ASSUME CompletionAssumption, CInv, NEW t \in Tasks, Succeed(t) PROVE CInv'
<1> DEFINE task == tasks[t]
           p == task.place
           ending == [task EXCEPT !.changed = @ \/ Learns(t)]
<1>1. task \in Task /\ Fewer(task) /\ fields \in Taughts /\ Known = fields BY Asking DEF Succeed
<1>2. p \in Places /\ task.dropped \subseteq Optional BY <1>1 DEF Task
<1>3. ending \in Task /\ Fewer(ending)
  <2>1. Learns(t) \in BOOLEAN BY DEF Learns
  <2>2. ending \in Task BY <1>1, <2>1 DEF Task
  <2>3. ending.first = task.first /\ ending.asked = task.asked /\ ending.dropped = task.dropped
    BY <1>1 DEF Task
  <2> QED BY <1>1, <2>2, <2>3 DEF Fewer
<1>4. tasks' = [tasks EXCEPT ![t] = Ending(ending)] BY DEF Succeed
<1> HIDE DEF ending
<1>5. Ending(ending) \in Task \cup {NoTask} /\ (Ending(ending) # NoTask => Fewer(Ending(ending)))
  BY <1>3, EndingIs
<1>6. UNCHANGED <<file, refuses, version>> BY DEF Succeed
<1>7. \/ fields' = fields /\ source' = source
      \/ /\ fields' = [fields EXCEPT ![p] = task.dropped]
         /\ source' = [source EXCEPT ![p] = version[p]]
  BY DEF Succeed, LearnedBy
<1>8. refuses[p] \subseteq task.dropped
  <2>1. (Optional \ task.dropped) \cap refuses[p] = {} BY DEF Succeed, Sent
  <2>2. refuses[p] \subseteq Optional BY <1>2 DEF CInv, CTypes, Taughts
  <2> QED BY <2>1, <2>2
<1>9. fields' \in Taughts /\ source' \in [Places -> Nat] /\ file' \in Taughts
  BY <1>1, <1>2, <1>6, <1>7 DEF Taughts, CInv, CTypes
<1>10. \A q \in Places :
         \/ fields'[q] = Known[q] /\ source'[q] = source[q]
         \/ refuses[q] \subseteq fields'[q] /\ source'[q] = version[q]
  BY <1>1, <1>2, <1>7, <1>8 DEF Taughts, CInv, CTypes
<1> QED BY <1>4, <1>5, <1>6, <1>9, <1>10, TaskKeeps

LEMMA SaveKeeps == ASSUME CompletionAssumption, CInv, NEW t \in Tasks, Save(t) PROVE CInv'
<1>1. fields \in Taughts /\ Known = fields BY Asking DEF Save
<1>2. (file' = fields \/ file' = file) /\ UNCHANGED <<fields, refuses, version, source>>
  BY DEF Save
<1>3. tasks' = [tasks EXCEPT ![t] = NoTask] BY DEF Save
<1> QED BY <1>1, <1>2, <1>3, TaskKeeps DEF CInv, CTypes

LEMMA ConfigureKeeps == ASSUME CompletionAssumption, CInv, Configure PROVE CInv'
<1>1. PICK next \in Taughts :
        /\ \A p \in Places : next[p] = Known[p] \/ next[p] = {}
        /\ fields' = next /\ (file' = next \/ file' = file)
        /\ source' = [p \in Places |-> IF next[p] = Known[p] THEN source[p] ELSE version[p]]
  <2>1. Known \in Taughts BY KnownIs DEF CInv
  <2>2. PICK listed \in SUBSET Places, others \in BOOLEAN :
          LET next == [p \in Places |-> IF p \in listed \/ (listed = {} /\ ~others)
                                        THEN Known[p] ELSE {}]
          IN /\ fields' = next
             /\ source' = [p \in Places |-> IF next[p] = Known[p] THEN source[p]
                                                                  ELSE version[p]]
             /\ file' = IF next # Known THEN next ELSE file
    BY DEF Configure
  <2> DEFINE next == [p \in Places |-> IF p \in listed \/ (listed = {} /\ ~others)
                                       THEN Known[p] ELSE {}]
  <2>3. next \in Taughts BY <2>1 DEF Taughts
  <2>4. \A p \in Places : next[p] = Known[p] \/ next[p] = {} OBVIOUS
  <2>5. /\ fields' = next /\ (file' = next \/ file' = file)
        /\ source' = [p \in Places |-> IF next[p] = Known[p] THEN source[p] ELSE version[p]]
    BY <2>2
  <2> HIDE DEF next
  <2> QED BY <2>3, <2>4, <2>5
<1>2. UNCHANGED <<tasks, refuses, version>> BY DEF Configure
<1>3. CTypes' BY <1>1, <1>2 DEF CInv, CTypes
<1>4. Known' = next /\ Runs' BY <1>1 DEF Known, Runs, CompletionAssumption, Taughts
<1>5. Taught'
  <2> SUFFICES ASSUME NEW p \in Places PROVE (source[p] <= version[p] /\ Teaches(Known, p))'
    BY DEF Taught
  <2>1. source[p] <= version[p] /\ Teaches(Known, p) /\ version[p] \in Nat
    BY DEF CInv, CTypes, Taught
  <2>2. source'[p] = IF next[p] = Known[p] THEN source[p] ELSE version[p] BY <1>1
  <2>3. next[p] = Known[p] \/ next[p] = {} BY <1>1
  <2> QED BY <1>2, <1>4, <2>1, <2>2, <2>3 DEF Teaches
<1> QED BY <1>2, <1>3, <1>4, <1>5 DEF CInv, Fewer

\* A worker that starts again knows what was saved, and of what was not it knows no source.
LEMMA StopKeeps == ASSUME CompletionAssumption, CInv, StopWorker PROVE CInv'
<1>1. /\ fields \in Taughts /\ Known = fields /\ fields' = Unread
      /\ tasks' = [t \in Tasks |-> NoTask] /\ UNCHANGED <<file, refuses, version>>
      /\ source' = [p \in Places |-> IF file[p] = fields[p] THEN source[p] ELSE 0]
  BY DEF StopWorker, CInv, CTypes, Known
<1>2. CTypes' BY <1>1 DEF CInv, CTypes
<1>3. Known' = file BY <1>1 DEF Known
<1>4. Taught'
  <2> SUFFICES ASSUME NEW p \in Places PROVE (source[p] <= version[p] /\ Teaches(Known, p))'
    BY DEF Taught
  <2>1. source[p] <= version[p] /\ Teaches(fields, p) /\ version[p] \in Nat \ {0}
    BY <1>1 DEF CInv, CTypes, Taught
  <2> QED BY <1>1, <1>3, <2>1 DEF Teaches
<1> QED BY <1>1, <1>2, <1>4 DEF CInv, Runs

LEMMA ServerKeeps == ASSUME CompletionAssumption, CInv, ServerChanges PROVE CInv'
<1>1. PICK p \in Places, set \in SUBSET Optional :
        version' = [version EXCEPT ![p] = @ + 1] /\ refuses' = [refuses EXCEPT ![p] = set]
  BY DEF ServerChanges
<1>2. UNCHANGED <<fields, file, tasks, source>> BY DEF ServerChanges
<1>3. CTypes' BY <1>1, <1>2 DEF CInv, CTypes, Taughts
<1>4. Known' = Known BY <1>2 DEF Known
<1>5. Taught'
  <2> SUFFICES ASSUME NEW q \in Places PROVE (source[q] <= version[q] /\ Teaches(Known, q))'
    BY DEF Taught
  <2>1. source[q] <= version[q] /\ Teaches(Known, q) /\ source[q] \in Nat /\ version[q] \in Nat
    BY DEF CInv, CTypes, Taught
  <2>2. CASE q = p
    <3>1. version'[q] = version[q] + 1 BY <1>1, <2>2 DEF CInv, CTypes
    <3> QED BY <1>2, <2>1, <3>1 DEF Teaches
  <2>3. CASE q # p
    <3>1. version'[q] = version[q] /\ refuses'[q] = refuses[q]
      BY <1>1, <2>3 DEF CInv, CTypes, Taughts
    <3> QED BY <1>2, <1>4, <2>1, <3>1 DEF Teaches
  <2> QED BY <2>2, <2>3
<1> QED BY <1>2, <1>3, <1>5 DEF CInv, Runs, Fewer

LEMMA InitCInv == CompletionAssumption /\ CompletionInit => CInv
<1> SUFFICES ASSUME CompletionAssumption, CompletionInit PROVE CInv OBVIOUS
<1>1. CTypes BY DEF CompletionInit, CTypes, Taughts
<1>2. Known = [p \in Places |-> {}] BY DEF CompletionInit, Known
<1>3. Taught BY <1>2 DEF CompletionInit, Taught, Teaches
<1> QED BY <1>1, <1>3 DEF CompletionInit, CInv, Runs

LEMMA NextCInv == CompletionAssumption /\ CInv /\ [CompletionNext]_cvars => CInv'
<1> SUFFICES ASSUME CompletionAssumption, CInv, [CompletionNext]_cvars PROVE CInv' OBVIOUS
<1>1. CASE UNCHANGED cvars
  BY <1>1 DEF cvars, CInv, CTypes, Taught, Teaches, Known, Runs, Fewer
<1>2. ASSUME NEW t \in Tasks, BeginTask(t) PROVE CInv' BY <1>2, BeginKeeps
<1>3. ASSUME NEW t \in Tasks, Answers(t) PROVE CInv'
  <2>1. CASE Refuse(t) BY <2>1, RefusedKeeps DEF Refuse
  <2>2. CASE RefuseOtherwise(t) BY <2>2, RefusedKeeps DEF RefuseOtherwise
  <2>3. CASE Fail(t) BY <2>3, FailKeeps
  <2>4. CASE Succeed(t) BY <2>4, SucceedKeeps
  <2> QED BY <1>3, <2>1, <2>2, <2>3, <2>4 DEF Answers
<1>4. ASSUME NEW t \in Tasks, Save(t) PROVE CInv' BY <1>4, SaveKeeps
<1>5. CASE Configure BY <1>5, ConfigureKeeps
<1>6. CASE StopWorker BY <1>6, StopKeeps
<1>7. CASE ServerChanges BY <1>7, ServerKeeps
<1> QED BY <1>1, <1>2, <1>3, <1>4, <1>5, <1>6, <1>7 DEF CompletionNext

\* For any optional fields, places and tasks, and any number of failures, changes of a server
\* and stops of the worker: what a server as it is taught holds every field it refuses
\* (complete.ts, complete; handlers.ts).
THEOREM TrueOfTheServer == CompletionAssumption => (CompletionSpec => []KnowsTheServer)
<1> SUFFICES ASSUME CompletionAssumption PROVE CompletionSpec => []KnowsTheServer OBVIOUS
<1>1. CompletionInit => CInv BY InitCInv
<1>2. CInv /\ [CompletionNext]_cvars => CInv' BY NextCInv
<1>3. CInv => KnowsTheServer BY DEF CInv, Taught, Teaches, Known, KnowsTheServer
<1> QED BY <1>1, <1>2, <1>3, PTL DEF CompletionSpec

\* Whatever a server names in its refusals, and whichever tasks run beside it, a task asks at
\* most twice more than there are optional fields (complete.ts's loop).
THEOREM EveryTaskEnds == CompletionAssumption => (CompletionSpec => []TasksEnd)
<1> SUFFICES ASSUME CompletionAssumption PROVE CompletionSpec => []TasksEnd OBVIOUS
<1>1. CompletionInit => CInv BY InitCInv
<1>2. CInv /\ [CompletionNext]_cvars => CInv' BY NextCInv
<1>3. CInv => TasksEnd
  <2> SUFFICES ASSUME CInv, NEW t \in Tasks, tasks[t] # NoTask
               PROVE  tasks[t].asked <= Cardinality(Optional) + 2
    BY DEF TasksEnd
  <2>1. Fewer(tasks[t]) /\ tasks[t] \in Task BY DEF CInv, CTypes
  <2>2. tasks[t].dropped \subseteq Optional /\ tasks[t].asked \in Nat /\ tasks[t].first \in BOOLEAN
    BY <2>1 DEF Task
  <2>3. /\ Cardinality(tasks[t].dropped) \in Nat /\ Cardinality(Optional) \in Nat
        /\ Cardinality(tasks[t].dropped) <= Cardinality(Optional)
    BY <2>2, FS_Subset, FS_CardinalityType DEF CompletionAssumption
  <2> QED BY <2>1, <2>2, <2>3 DEF Fewer
<1> QED BY <1>1, <1>2, <1>3, PTL DEF CompletionSpec

-----------------------------------------------------------------------------
(***************************************************************************)
(* LogPlaces.                                                              *)
(***************************************************************************)
PlacesTypes ==
  /\ now \in Nat /\ readThrough \in Nat /\ readThrough <= now
  /\ location.at \in Int
  /\ \A e \in logged : e.at \in Nat /\ e.at <= now /\ e.dir \in Dirs

\* No location says that nothing was read.  One names every directory that had a file when it
\* was found, so that an entry elsewhere is no older; it is the location of the last read, which
\* was its own search or found it fresh.
LocationInv ==
  IF location = NoLocation THEN readThrough = 0
  ELSE /\ location.at <= readThrough
       /\ readThrough = location.at \/ readThrough - location.at < Ttl
       /\ \A e \in logged : e.dir \notin location.dirs => e.at >= location.at

\* What lies where the last read looked, and is older than that read, is stored.
Covers == \A e \in logged : e.dir \in location.dirs /\ e.at < readThrough => e \in stored

PlacesInv == PlacesTypes /\ (~forgot => LocationInv /\ Covers)

LEMMA StoresSkipped == PlacesInv => StoresWhatItSkipped
<1> SUFFICES ASSUME PlacesInv, ~forgot, NEW e \in logged, e.at < readThrough, e \notin stored
             PROVE  location.at <= e.at /\ readThrough - location.at < Ttl
  BY DEF StoresWhatItSkipped
<1>1. e.dir \notin location.dirs BY DEF PlacesInv, Covers
<1>2. e.at \in Nat /\ readThrough \in Nat /\ location.at \in Int BY DEF PlacesInv, PlacesTypes
<1>3. location # NoLocation BY <1>2 DEF PlacesInv, LocationInv
<1> QED BY <1>1, <1>2, <1>3 DEF PlacesInv, LocationInv

LEMMA InitPlaces == LogPlacesAssumption /\ PlacesInit => PlacesInv
BY DEF LogPlacesAssumption, PlacesInit, PlacesInv, PlacesTypes, LocationInv, Covers, NoLocation

LEMMA LogEntryKeeps == ASSUME PlacesInv, NEW d \in Dirs, LogEntry(d) PROVE PlacesInv'
<1>1. logged' = logged \cup {[dir |-> d, at |-> now]} /\ UNCHANGED <<now, location, stored, readThrough, forgot>>
  BY DEF LogEntry
<1> DEFINE new == [dir |-> d, at |-> now]
<1>2. new.dir = d /\ new.at = now OBVIOUS
<1>3. logged' = logged \cup {new} BY <1>1
<1> HIDE DEF new
<1>4. PlacesTypes' BY <1>1, <1>2, <1>3 DEF PlacesInv, PlacesTypes
<1>5. ASSUME ~forgot PROVE LocationInv'
  BY <1>1, <1>2, <1>3, <1>5 DEF PlacesInv, PlacesTypes, LocationInv, NoLocation
<1>6. ASSUME ~forgot PROVE Covers'
  BY <1>1, <1>2, <1>3, <1>6 DEF PlacesInv, PlacesTypes, Covers
<1> QED BY <1>1, <1>4, <1>5, <1>6 DEF PlacesInv

LEMMA TickKeeps == ASSUME PlacesInv, Tick PROVE PlacesInv'
<1>1. now' = now + 1 /\ UNCHANGED <<logged, location, stored, readThrough, forgot>> BY DEF Tick
<1>2. PlacesTypes' BY <1>1 DEF PlacesInv, PlacesTypes
<1> QED BY <1>1, <1>2 DEF PlacesInv, LocationInv, Covers, NoLocation

\* A read takes in what is where it looks: what its location had is stored, or is no older than
\* the last read; what it had not appeared since, and is read whole.
LEMMA ReadLogsKeeps == ASSUME LogPlacesAssumption, PlacesInv, ReadLogs PROVE PlacesInv'
<1>1. /\ location' = Located /\ readThrough' = now /\ UNCHANGED <<now, logged>>
      /\ stored' = stored \cup {e \in logged : e.dir \in Located.dirs /\ InWindow(e, Located)}
      /\ forgot' = (forgot \/ (location # NoLocation /\ ~Remembered))
  BY DEF ReadLogs
<1>2. /\ now \in Nat /\ readThrough \in Nat /\ readThrough <= now /\ location.at \in Int
      /\ \A e \in logged : e.at \in Nat /\ e.at <= now /\ e.dir \in Dirs
      /\ Behind \in Nat /\ Overlap \in Nat /\ Behind <= Overlap /\ Forgotten \in Nat /\ Ttl \in Nat
  BY DEF PlacesInv, PlacesTypes, LogPlacesAssumption
<1> DEFINE found == [dirs |-> FilesIn(Dirs), at |-> now, appeared |-> Appeared]
<1>3. Located = IF Trusted THEN location ELSE found BY DEF Located
<1>4. found.dirs = FilesIn(Dirs) /\ found.at = now /\ found.appeared = Appeared OBVIOUS
<1>5. \A e \in logged : e.dir \in FilesIn(Dirs) BY <1>2 DEF FilesIn
<1>6. PlacesTypes' BY <1>1, <1>2, <1>3, <1>4 DEF PlacesTypes
<1>7. ASSUME ~forgot' PROVE LocationInv' /\ Covers'
  <2>1. ~forgot /\ (location = NoLocation \/ Remembered) BY <1>1, <1>7
  <2>2. LocationInv /\ Covers BY <2>1 DEF PlacesInv
  <2>3. CASE Trusted
    <3>1. location' = location BY <1>1, <1>3, <2>3
    <3>2. now - location.at < Ttl BY <2>3 DEF Trusted, Fresh
    <3>3. LocationInv'
      <4>1. CASE location = NoLocation
        <5>1. location.at = -Forgotten /\ now - location.at < Forgotten
          BY <2>3, <4>1 DEF NoLocation, Trusted, Fresh, Remembered
        <5> QED BY <1>2, <5>1
      <4>2. CASE location # NoLocation
        BY <1>1, <1>2, <2>2, <3>1, <3>2, <4>2 DEF LocationInv, NoLocation
      <4> QED BY <4>1, <4>2
    <3>4. Covers'
      <4> SUFFICES ASSUME NEW e \in logged, e.dir \in location.dirs PROVE e \in stored'
        BY <1>1, <3>1 DEF Covers
      <4>1. CASE e.at < readThrough BY <1>1, <2>2, <4>1 DEF Covers
      <4>2. CASE e.at >= readThrough
        <5>1. e.at - Behind >= readThrough - Overlap BY <1>2, <4>2
        <5> QED BY <1>1, <1>3, <2>3, <5>1 DEF InWindow
      <4> QED BY <1>2, <4>1, <4>2
    <3> QED BY <3>3, <3>4
  <2>4. CASE ~Trusted
    <3> HIDE DEF found
    <3>1. Located = found /\ location' = found BY <1>1, <1>3, <2>4
    <3>2. LocationInv'
      <4>1. CASE found = NoLocation
        <5>1. now = -Forgotten BY <1>4, <4>1 DEF NoLocation
        <5>2. now = 0 BY <1>2, <5>1
        <5> QED BY <1>1, <3>1, <4>1, <5>2 DEF LocationInv, NoLocation
      <4>2. CASE found # NoLocation
        <5>1. \A e \in logged : e.dir \in found.dirs BY <1>4, <1>5
        <5> QED BY <1>1, <1>2, <1>4, <3>1, <4>2, <5>1 DEF LocationInv, NoLocation
      <4> QED BY <4>1, <4>2
    <3>3. Covers'
      <4> SUFFICES ASSUME NEW e \in logged PROVE e \in stored'
        BY <1>1 DEF Covers
      <4>1. e.dir \in Located.dirs BY <1>4, <1>5, <3>1
      <4>2. CASE e.at >= readThrough
        <5>1. e.at - Behind >= readThrough - Overlap BY <1>2, <4>2
        <5> QED BY <1>1, <4>1, <5>1 DEF InWindow
      <4>3. CASE e.at < readThrough
        <5>1. location # NoLocation BY <1>2, <2>2, <4>3 DEF LocationInv
        <5>2. Remembered BY <2>1, <5>1
        <5>3. CASE e.dir \in location.dirs BY <1>1, <2>2, <4>3, <5>3 DEF Covers
        <5>4. CASE e.dir \notin location.dirs
          <6>1. e.dir \in Located.appeared BY <1>4, <1>5, <3>1, <5>2, <5>4 DEF Appeared
          <6> QED BY <1>1, <4>1, <6>1 DEF InWindow
        <5> QED BY <5>3, <5>4
      <4> QED BY <1>2, <4>2, <4>3
    <3> QED BY <3>2, <3>3
  <2> QED BY <2>3, <2>4
<1> QED BY <1>6, <1>7 DEF PlacesInv

\* For any directories and clock, and any trust, overlap and lag of the host's clock within the
\* overlap: an entry is stored once a location older than it is no longer trusted
\* (locateClaudeSession; readThreadLogs).
THEOREM SkippedIsStored == LogPlacesAssumption => (PlacesSpec => []StoresWhatItSkipped)
<1> SUFFICES ASSUME LogPlacesAssumption PROVE PlacesSpec => []StoresWhatItSkipped OBVIOUS
<1>1. PlacesInit => PlacesInv BY InitPlaces
<1>2. PlacesInv /\ [PlacesNext]_placesVars => PlacesInv'
  <2> SUFFICES ASSUME PlacesInv, [PlacesNext]_placesVars PROVE PlacesInv' OBVIOUS
  <2>1. CASE UNCHANGED placesVars
    BY <2>1 DEF placesVars, PlacesInv, PlacesTypes, LocationInv, Covers, NoLocation
  <2> QED BY <2>1, TickKeeps, ReadLogsKeeps, LogEntryKeeps DEF PlacesNext
<1>3. PlacesInv => StoresWhatItSkipped BY StoresSkipped
<1> QED BY <1>1, <1>2, <1>3, PTL DEF PlacesSpec

-----------------------------------------------------------------------------
(***************************************************************************)
(* EndpointCards: what is typed in a card.  The section is an instance,    *)
(* with variables of its own.                                              *)
(***************************************************************************)
CONSTANTS Blank, New, Starts, MaxTyped, MaxCalls, MaxElsewhere

VARIABLES list, page, cards, calls, done

Typed == INSTANCE EndpointCards

Lists == [Ids -> Typed!AnyEndpoint \cup {NoEndpoint}]
Pages == [status : {"loading", "ready", "failed"}, list : Lists, versions : [Ids -> Nat]]
AnyCall == [card : Typed!Cards, n : Nat, kind : {"save", "remove"}, draft : Typed!AnyForm,
            state : {"sent", "answered", "failed"}, ok : BOOLEAN, list : Lists]
CardTypes ==
  /\ list \in Lists /\ page \in Pages
  /\ cards \in [Typed!Cards -> Typed!AnyCard \cup {NoEndpoint}]
  /\ calls \subseteq AnyCall
  /\ done \in [typed : Nat, calls : Nat, elsewhere : Nat, failures : Nat]
\* A card shown is of its Endpoint's version, and of an Endpoint in the list drawn.
CardOf(c, v, e) == c # NoEndpoint => c.version = v /\ e # NoEndpoint
CardsAgree == \A id \in Ids : CardOf(cards[id], page.versions[id], page.list[id])
CardsInv == CardTypes /\ CardsAgree

LEMMA NewIsNoId ==
  ASSUME Typed!CardsAssumption
  PROVE  /\ \A id \in Ids : id # New /\ id \in Typed!Cards
         /\ New \in Typed!Cards
BY DEF Typed!CardsAssumption, Typed!Cards

\* A new card, of an Endpoint or blank.
LEMMA CardTyped ==
  ASSUME CardTypes, NEW form \in Typed!AnyForm, NEW v \in Nat
  PROVE  Typed!Card(form, v) \in Typed!AnyCard /\ Typed!Card(form, v).version = v
BY DEF CardTypes, Typed!Card, Typed!AnyCard

LEMMA FormTyped ==
  ASSUME NEW id \in Ids, NEW e \in Typed!AnyEndpoint
  PROVE  Typed!FormOf(id, e) \in Typed!AnyForm
BY DEF Typed!FormOf, Typed!AnyForm, Typed!AnyEndpoint

LEMMA BlankTyped == Typed!BlankForm \in Typed!AnyForm
BY DEF Typed!BlankForm, Typed!AnyForm, Typed!KeyKinds

\* The cards of a list drawn are typed, and of their versions.
LEMMA DrawnIs ==
  ASSUME Typed!CardsAssumption, CardTypes, NEW next \in Lists, NEW versions \in [Ids -> Nat],
         NEW was \in [Typed!Cards -> Typed!AnyCard \cup {NoEndpoint}]
  PROVE  /\ Typed!Drawn(next, versions, was) \in [Typed!Cards -> Typed!AnyCard \cup {NoEndpoint}]
         /\ \A id \in Ids : CardOf(Typed!Drawn(next, versions, was)[id], versions[id], next[id])
<1> DEFINE drawn == Typed!Drawn(next, versions, was)
<1>1. drawn[New] = was[New] /\ was[New] \in Typed!AnyCard \cup {NoEndpoint}
  BY NewIsNoId DEF Typed!Drawn
<1>2. ASSUME NEW id \in Ids
      PROVE  drawn[id] \in Typed!AnyCard \cup {NoEndpoint} /\ CardOf(drawn[id], versions[id], next[id])
  <2>1. drawn[id] = IF next[id] = NoEndpoint THEN NoEndpoint
                    ELSE IF was[id] # NoEndpoint /\ was[id].version = versions[id] THEN was[id]
                    ELSE Typed!Card(Typed!FormOf(id, next[id]), versions[id])
    BY NewIsNoId DEF Typed!Drawn
  <2>2. CASE next[id] = NoEndpoint
    BY <2>1, <2>2 DEF CardOf
  <2>3. CASE next[id] # NoEndpoint
    <3>1. Typed!Card(Typed!FormOf(id, next[id]), versions[id]) \in Typed!AnyCard /\ Typed!Card(Typed!FormOf(id, next[id]), versions[id]).version = versions[id]
      BY <2>3, FormTyped, CardTyped DEF Lists
    <3>. QED  BY <2>1, <2>3, <3>1, NewIsNoId DEF CardOf
  <2>. QED  BY <2>2, <2>3
<1>3. drawn = [id \in Typed!Cards |-> drawn[id]]
  BY DEF Typed!Drawn
<1>. HIDE DEF drawn
<1>4. drawn \in [Typed!Cards -> Typed!AnyCard \cup {NoEndpoint}]
  BY <1>1, <1>2, <1>3 DEF Typed!Cards
<1>. QED  BY <1>2, <1>4 DEF drawn

\* What a list drawn leaves: the new card as it was, and a card whose version is as it was.
LEMMA DrawnLeaves ==
  ASSUME Typed!CardsAssumption, NEW next, NEW versions, NEW was, NEW id \in Typed!Cards,
         was[id] # NoEndpoint,
         id # New => next[id] # NoEndpoint /\ was[id].version = versions[id]
  PROVE  Typed!Drawn(next, versions, was)[id] = was[id]
BY DEF Typed!Drawn

-----------------------------------------------------------------------------
LEMMA InitCardsInv ==
  ASSUME Typed!CardsAssumption, Typed!CardsInit
  PROVE  CardsInv
<1>1. list \in Lists
  BY DEF Typed!CardsInit, Typed!CardsAssumption, Lists
<1>2. page \in Pages
  BY DEF Typed!CardsInit, Pages, Lists
<1>. QED  BY <1>1, <1>2, NewIsNoId DEF Typed!CardsInit, CardsInv, CardTypes, CardsAgree, CardOf

LEMMA SameCardsInv ==
  ASSUME CardsInv, UNCHANGED Typed!cardVars
  PROVE  CardsInv'
BY DEF CardsInv, CardTypes, CardsAgree, CardOf, Typed!cardVars

\* A change to one card that is shown, which leaves its version.
LEMMA CardEdited ==
  ASSUME Typed!CardsAssumption, CardsInv, NEW id \in Typed!Cards, NEW card \in Typed!AnyCard, Typed!Shown(id), card.version = cards[id].version,
         cards' = [cards EXCEPT ![id] = card], page' = page, list' = list,
         calls' \subseteq AnyCall, done' \in [typed : Nat, calls : Nat, elsewhere : Nat, failures : Nat]
  PROVE  CardsInv'
<1>1. CardTypes'
  BY DEF CardsInv, CardTypes
<1>2. ASSUME NEW i \in Ids  PROVE CardOf(cards'[i], page'.versions[i], page'.list[i])
  <2>1. CASE i = id
    BY <2>1 DEF CardsInv, CardTypes, CardsAgree, CardOf, Typed!Shown
  <2>2. CASE i # id
    BY <2>2, NewIsNoId DEF CardsInv, CardTypes, CardsAgree, CardOf
  <2>. QED  BY <2>1, <2>2
<1>. QED  BY <1>1, <1>2 DEF CardsInv, CardsAgree

LEMMA ShownIsCard ==
  ASSUME CardsInv, NEW id \in Typed!Cards, Typed!Shown(id)
  PROVE  cards[id] \in Typed!AnyCard
BY DEF CardsInv, CardTypes, Typed!Shown

LEMMA LoadCardsInv ==
  ASSUME Typed!CardsAssumption, CardsInv, Typed!Load
  PROVE  CardsInv'
<1>1. page' \in Pages /\ page'.versions = page.versions /\ page'.list = list
  BY DEF Typed!Load, CardsInv, CardTypes, Pages
<1>2. cards' = Typed!Drawn(list, page.versions, cards) /\ UNCHANGED <<list, calls, done>>
  BY DEF Typed!Load
<1>3. page.versions \in [Ids -> Nat]
  BY DEF CardsInv, CardTypes, Pages
<1>. QED  BY <1>1, <1>2, <1>3, DrawnIs DEF CardsInv, CardTypes, CardsAgree

LEMMA LoadFailsCardsInv ==
  ASSUME CardsInv, Typed!LoadFails
  PROVE  CardsInv'
<1>1. page' \in Pages /\ page'.versions = page.versions /\ page'.list = page.list
  BY DEF Typed!LoadFails, CardsInv, CardTypes, Pages
<1>2. UNCHANGED <<list, cards, calls>> /\ done' \in [typed : Nat, calls : Nat, elsewhere : Nat, failures : Nat]
  BY DEF Typed!LoadFails, CardsInv, CardTypes
<1>. QED  BY <1>1, <1>2 DEF CardsInv, CardTypes, CardsAgree

LEMMA AddCardsInv ==
  ASSUME Typed!CardsAssumption, CardsInv, Typed!Add
  PROVE  CardsInv'
<1>1. Typed!Card(Typed!BlankForm, 0) \in Typed!AnyCard
  BY BlankTyped, CardTyped DEF CardsInv
<1>2. cards' = [cards EXCEPT ![New] = Typed!Card(Typed!BlankForm, 0)] /\ UNCHANGED <<list, page, calls, done>>
  BY DEF Typed!Add
<1>. QED  BY <1>1, <1>2, NewIsNoId DEF CardsInv, CardTypes, CardsAgree, CardOf

LEMMA EditsTyped ==
  ASSUME NEW id \in Typed!Cards, NEW form \in Typed!AnyForm, NEW asSaved, NEW next \in Typed!Edits(id, form, asSaved)
  PROVE  next \in Typed!AnyForm
<1>1. ASSUME NEW u \in Urls  PROVE [form EXCEPT !.url = u] \in Typed!AnyForm
  BY DEF Typed!AnyForm
<1>2. ASSUME NEW k \in Typed!KeyKinds  PROVE [form EXCEPT !.kind = k] \in Typed!AnyForm
  BY DEF Typed!AnyForm
<1>3. ASSUME NEW i \in Ids  PROVE [form EXCEPT !.id = i] \in Typed!AnyForm
  BY DEF Typed!AnyForm
<1>4. ASSUME NEW a \in BOOLEAN, NEW b \in BOOLEAN  PROVE [form EXCEPT !.replacing = a, !.literal = b] \in Typed!AnyForm
  BY DEF Typed!AnyForm
<1>5. [form EXCEPT !.literal = ~@] \in Typed!AnyForm
  BY DEF Typed!AnyForm
<1>. QED  BY <1>1, <1>2, <1>3, <1>4, <1>5 DEF Typed!Edits

LEMMA TypeCardsInv ==
  ASSUME Typed!CardsAssumption, CardsInv, NEW id \in Typed!Cards, Typed!Type(id)
  PROVE  CardsInv' /\ done'.typed > done.typed
<1>1. cards[id] \in Typed!AnyCard /\ cards[id].form \in Typed!AnyForm
  BY ShownIsCard DEF Typed!Type, Typed!AnyCard
<1>2. PICK form \in Typed!Edits(id, cards[id].form, Typed!Saved(id)) : cards' = [cards EXCEPT ![id].form = form]
  BY DEF Typed!Type
<1>3. form \in Typed!AnyForm
  BY <1>1, EditsTyped
<1> DEFINE card == [cards[id] EXCEPT !.form = form]
<1>4. card \in Typed!AnyCard /\ card.version = cards[id].version
  BY <1>1, <1>3 DEF Typed!AnyCard
<1>5. cards' = [cards EXCEPT ![id] = card]
  BY <1>2 DEF CardsInv, CardTypes
<1>6. done' \in [typed : Nat, calls : Nat, elsewhere : Nat, failures : Nat] /\ done'.typed > done.typed
  BY DEF Typed!Type, CardsInv, CardTypes
<1>. HIDE DEF card
<1>7. UNCHANGED <<list, page, calls>> /\ Typed!Shown(id) /\ calls \subseteq AnyCall
  BY DEF Typed!Type, CardsInv, CardTypes
<1>. QED  BY <1>4, <1>5, <1>6, <1>7, CardEdited

\* Asking to remove, keeping and the like leave what is typed.
LEMMA FlagsCardsInv ==
  ASSUME Typed!CardsAssumption, CardsInv, NEW id \in Typed!Cards, Typed!AskRemove(id) \/ Typed!Keep(id)
  PROVE  CardsInv' /\ \E card \in Typed!AnyCard : cards' = [cards EXCEPT ![id] = card] /\ card.form = cards[id].form
<1>1. cards[id] \in Typed!AnyCard /\ Typed!Shown(id) /\ UNCHANGED <<list, page, calls, done>>
  BY ShownIsCard DEF Typed!AskRemove, Typed!Keep
<1>2. PICK b \in BOOLEAN : cards' = [cards EXCEPT ![id].removing = b]
  BY DEF Typed!AskRemove, Typed!Keep
<1> DEFINE card == [cards[id] EXCEPT !.removing = b]
<1>3. card \in Typed!AnyCard /\ card.version = cards[id].version /\ card.form = cards[id].form
  BY <1>1 DEF Typed!AnyCard
<1>4. cards' = [cards EXCEPT ![id] = card]
  BY <1>2 DEF CardsInv, CardTypes
<1>. HIDE DEF card
<1>5. calls \subseteq AnyCall /\ done \in [typed : Nat, calls : Nat, elsewhere : Nat, failures : Nat]
  BY DEF CardsInv, CardTypes
<1>. QED  BY <1>1, <1>3, <1>4, <1>5, CardEdited

LEMMA RunCardsInv ==
  ASSUME Typed!CardsAssumption, CardsInv, NEW id \in Typed!Cards, Typed!Save(id) \/ Typed!Remove(id)
  PROVE  CardsInv' /\ \E card \in Typed!AnyCard : cards' = [cards EXCEPT ![id] = card] /\ card.form = cards[id].form
<1>1. PICK kind \in {"save", "remove"} : Typed!Run(id, kind)
  BY DEF Typed!Save, Typed!Remove
<1>2. cards[id] \in Typed!AnyCard /\ Typed!Shown(id) /\ UNCHANGED <<list, page>>
  BY <1>1, ShownIsCard DEF Typed!Run
<1> DEFINE card == [cards[id] EXCEPT !.busy = TRUE, !.failed = FALSE]
<1>3. card \in Typed!AnyCard /\ card.version = cards[id].version /\ card.form = cards[id].form
  BY <1>2 DEF Typed!AnyCard
<1>4. cards' = [cards EXCEPT ![id] = card]
  BY <1>1 DEF Typed!Run, CardsInv, CardTypes
<1>5. done' \in [typed : Nat, calls : Nat, elsewhere : Nat, failures : Nat]
  BY <1>1 DEF Typed!Run, CardsInv, CardTypes
<1>6. calls' \subseteq AnyCall
  <2> DEFINE call == [card |-> id, n |-> done.calls + 1, kind |-> kind,
                      draft |-> cards[id].form, state |-> "sent", ok |-> FALSE, list |-> page.list]
  <2>1. cards[id].form \in Typed!AnyForm /\ page.list \in Lists /\ done.calls + 1 \in Nat
    BY <1>2 DEF Typed!AnyCard, CardsInv, CardTypes, Pages
  <2>2. call \in AnyCall
    BY <2>1 DEF AnyCall
  <2>3. calls' = calls \cup {call}
    BY <1>1 DEF Typed!Run
  <2>. HIDE DEF call
  <2>. QED  BY <2>2, <2>3 DEF CardsInv, CardTypes
<1>. HIDE DEF card
<1>. QED  BY <1>2, <1>3, <1>4, <1>5, <1>6, CardEdited

LEMMA CancelCardsInv ==
  ASSUME Typed!CardsAssumption, CardsInv, NEW id \in Typed!Cards, Typed!Cancel(id)
  PROVE  CardsInv'
<1>1. cards[id] \in Typed!AnyCard /\ Typed!Shown(id) /\ UNCHANGED <<list, page, calls, done>>
  BY ShownIsCard DEF Typed!Cancel
<1>2. calls \subseteq AnyCall /\ done \in [typed : Nat, calls : Nat, elsewhere : Nat, failures : Nat]
  BY DEF CardsInv, CardTypes
<1>3. CASE id = New
  <2>1. cards' = [cards EXCEPT ![New] = NoEndpoint]
    BY <1>3 DEF Typed!Cancel
  <2>. QED  BY <1>1, <2>1, NewIsNoId DEF CardsInv, CardTypes, CardsAgree, CardOf
<1>4. CASE id # New
  <2>1. PICK form : cards' = [cards EXCEPT ![id] = [@ EXCEPT !.form = form, !.failed = FALSE]] /\ form = Typed!FormOf(id, page.list[id])
    BY <1>4 DEF Typed!Cancel, Typed!Saved
  <2>2. page.list[id] \in Typed!AnyEndpoint
    BY <1>1, <1>4 DEF CardsInv, CardsAgree, CardOf, CardTypes, Pages, Lists, Typed!Cards, Typed!Shown
  <2>3. form \in Typed!AnyForm
    BY <1>4, <2>1, <2>2, FormTyped DEF Typed!Cards
  <2> DEFINE card == [cards[id] EXCEPT !.form = form, !.failed = FALSE]
  <2>4. card \in Typed!AnyCard /\ card.version = cards[id].version
    BY <1>1, <2>3 DEF Typed!AnyCard
  <2>5. cards' = [cards EXCEPT ![id] = card]
    BY <2>1
  <2>. HIDE DEF card
  <2>. QED  BY <1>1, <1>2, <2>4, <2>5, CardEdited
<1>. QED  BY <1>3, <1>4

LEMMA PlannedTyped ==
  ASSUME Typed!CardsAssumption, list \in Lists, NEW draft \in Typed!AnyForm, NEW create
  PROVE  Typed!Planned(draft, create).list \in Lists
<1> DEFINE e == IF draft.id = Blank THEN NoEndpoint ELSE list[draft.id]
           held == Typed!HoldsLiteralKey(e)
           key == [kind |-> draft.kind, set |-> draft.kind = "literal" /\ (draft.literal \/ (held /\ e.url = draft.url))]
           refused == \/ draft.id = Blank \/ draft.url = Blank \/ create # (e = NoEndpoint)
                      \/ draft.kind = "literal" /\ ~draft.literal /\ ~held
           planned == [url |-> draft.url, key |-> key]
<1>1. Typed!Planned(draft, create) =
        IF refused THEN [ok |-> FALSE, list |-> list] ELSE [ok |-> TRUE, list |-> [list EXCEPT ![draft.id] = planned]]
  BY DEF Typed!Planned
<1>2. (draft.kind = "literal" /\ (draft.literal \/ (held /\ e.url = draft.url))) \in BOOLEAN /\ draft.kind \in Typed!KeyKinds
  BY DEF Typed!AnyForm
<1>3. key \in [kind : Typed!KeyKinds, set : BOOLEAN]
  BY <1>2
<1>4. refused \/ draft.url \in Urls
  BY DEF Typed!AnyForm
<1>. HIDE DEF key
<1>5. refused \/ planned \in Typed!AnyEndpoint
  BY <1>3, <1>4 DEF Typed!AnyEndpoint
<1>. HIDE DEF planned, refused, e, held
<1>6. refused \/ [list EXCEPT ![draft.id] = planned] \in Lists
  BY <1>5 DEF Lists
<1>7. [ok |-> FALSE, list |-> list].list = list
  OBVIOUS
<1>8. [ok |-> TRUE, list |-> [list EXCEPT ![draft.id] = planned]].list = [list EXCEPT ![draft.id] = planned]
  OBVIOUS
<1>. QED  BY <1>1, <1>6, <1>7, <1>8

LEMMA RemovedTyped ==
  ASSUME list \in Lists, NEW id
  PROVE  Typed!Removed(id).list \in Lists
BY DEF Typed!Removed, Lists

\* The server and the command line change no card.
LEMMA ServeCardsInv ==
  ASSUME Typed!CardsAssumption, CardsInv, Typed!Serve
  PROVE  CardsInv'
<1>0. PICK call \in calls : \E result :
        /\ list' = result.list
        /\ calls' = (calls \ {call}) \cup {[call EXCEPT !.state = "answered", !.ok = result.ok, !.list = result.list]}
        /\ result = IF call.kind = "save" THEN Typed!Planned(call.draft, call.card = New) ELSE Typed!Removed(call.card)
  BY DEF Typed!Serve
<1>1. PICK result :
        /\ list' = result.list
        /\ calls' = (calls \ {call}) \cup {[call EXCEPT !.state = "answered", !.ok = result.ok, !.list = result.list]}
        /\ result = IF call.kind = "save" THEN Typed!Planned(call.draft, call.card = New) ELSE Typed!Removed(call.card)
  BY <1>0
<1>2. call \in AnyCall /\ list \in Lists
  BY DEF CardsInv, CardTypes
<1>3. result.list \in Lists
  BY <1>1, <1>2, PlannedTyped, RemovedTyped DEF AnyCall
<1>4. result.ok \in BOOLEAN
  BY <1>1 DEF Typed!Planned, Typed!Removed
<1>5. [call EXCEPT !.state = "answered", !.ok = result.ok, !.list = result.list] \in AnyCall
  BY <1>2, <1>3, <1>4 DEF AnyCall
<1>6. UNCHANGED <<page, cards, done>>
  BY DEF Typed!Serve
<1>. QED  BY <1>1, <1>3, <1>5, <1>6 DEF CardsInv, CardTypes, CardsAgree

LEMMA FailCardsInv ==
  ASSUME CardsInv, Typed!Fail
  PROVE  CardsInv'
<1>1. PICK call \in calls : calls' = (calls \ {call}) \cup {[call EXCEPT !.state = "failed"]}
  BY DEF Typed!Fail
<1>2. [call EXCEPT !.state = "failed"] \in AnyCall
  BY DEF CardsInv, CardTypes, AnyCall
<1>3. UNCHANGED <<list, page, cards>> /\ done' \in [typed : Nat, calls : Nat, elsewhere : Nat, failures : Nat]
  BY DEF Typed!Fail, CardsInv, CardTypes
<1>. QED  BY <1>1, <1>2, <1>3 DEF CardsInv, CardTypes, CardsAgree

LEMMA ElsewhereCardsInv ==
  ASSUME CardsInv, Typed!Elsewhere
  PROVE  CardsInv'
<1>1. UNCHANGED <<page, cards, calls>> /\ done' \in [typed : Nat, calls : Nat, elsewhere : Nat, failures : Nat]
  BY DEF Typed!Elsewhere, CardsInv, CardTypes
<1>2. ASSUME NEW u \in Urls  PROVE [url |-> u, key |-> [kind |-> "none", set |-> FALSE]] \in Typed!AnyEndpoint
  BY DEF Typed!AnyEndpoint, Typed!KeyKinds
<1>3. list' \in Lists
  BY <1>2 DEF Typed!Elsewhere, CardsInv, CardTypes, Lists
<1>. QED  BY <1>1, <1>3 DEF CardsInv, CardTypes, CardsAgree

-----------------------------------------------------------------------------
(***************************************************************************)
(* The answers.                                                            *)
(***************************************************************************)
\* An answer that is no list: the call's card is no longer busy.
LEMMA RefusedCardsInv ==
  ASSUME Typed!CardsAssumption, CardsInv, NEW call \in calls, calls' = calls \ {call}, UNCHANGED <<list, page, done>>,
         NEW mine \in BOOLEAN, mine => Typed!Shown(call.card),
         cards' = IF mine THEN [cards EXCEPT ![call.card].busy = FALSE, ![call.card].failed = TRUE] ELSE cards
  PROVE  /\ CardsInv'
         /\ \A id \in Typed!Cards : ~Typed!Dropped(id)
<1>1. calls' \subseteq AnyCall /\ done' \in [typed : Nat, calls : Nat, elsewhere : Nat, failures : Nat] /\ call.card \in Typed!Cards
  BY DEF CardsInv, CardTypes, AnyCall
<1>2. CASE mine
  <2> DEFINE id == call.card
             card == [cards[id] EXCEPT !.busy = FALSE, !.failed = TRUE]
  <2>1. cards[id] \in Typed!AnyCard
    BY <1>1, <1>2, ShownIsCard
  <2>2. card \in Typed!AnyCard /\ card.version = cards[id].version /\ card.form = cards[id].form
    BY <2>1 DEF Typed!AnyCard
  <2>3. cards' = [cards EXCEPT ![id] = card]
    BY <1>1, <1>2 DEF CardsInv, CardTypes
  <2>. HIDE DEF card
  <2>4. CardsInv'
    BY <1>1, <1>2, <2>2, <2>3, CardEdited
  <2>5. card # NoEndpoint
    BY <2>2 DEF Typed!CardsAssumption
  <2>6. ASSUME NEW i \in Typed!Cards  PROVE ~Typed!Dropped(i)
    BY <1>1, <2>2, <2>3, <2>5 DEF Typed!Dropped, CardsInv, CardTypes, Typed!Shown
  <2>. QED  BY <2>4, <2>6
<1>3. CASE ~mine
  <2>1. CardsInv'
    BY <1>1, <1>3 DEF CardsInv, CardTypes, CardsAgree
  <2>2. ASSUME NEW i \in Typed!Cards  PROVE ~Typed!Dropped(i)
    BY <1>3 DEF Typed!Dropped, Typed!Shown
  <2>. QED  BY <2>1, <2>2
<1>. QED  BY <1>2, <1>3

\* A list is drawn with the call's card anew; a card of another Endpoint stays, while the list has it.
LEMMA ListedCardsInv ==
  ASSUME Typed!CardsAssumption, CardsInv, NEW call \in calls, calls' = calls \ {call}, UNCHANGED <<list, done>>, call.ok,
         NEW versions, versions = IF call.card = New THEN page.versions ELSE [page.versions EXCEPT ![call.card] = @ + 1],
         NEW was, was = IF Typed!Closed(call) THEN [cards EXCEPT ![New] = NoEndpoint] ELSE cards,
         page' = [page EXCEPT !.list = call.list, !.versions = versions],
         cards' = Typed!Drawn(call.list, versions, was)
  PROVE  /\ CardsInv'
         /\ \A id \in Typed!Cards : Typed!Dropped(id) => Typed!OwnAnswer(id) \/ (id # New /\ page'.list[id] = NoEndpoint)
<1>1. call \in AnyCall /\ call.list \in Lists /\ call.card \in Typed!Cards
  BY DEF CardsInv, CardTypes, AnyCall
<1>2. page.versions \in [Ids -> Nat] /\ page \in Pages
  BY DEF CardsInv, CardTypes, Pages
<1>3. versions \in [Ids -> Nat]
  BY <1>1, <1>2 DEF Typed!Cards
<1>4. was \in [Typed!Cards -> Typed!AnyCard \cup {NoEndpoint}]
  BY DEF CardsInv, CardTypes
<1>5. page' \in Pages /\ page'.list = call.list /\ page'.versions = versions
  BY <1>1, <1>2, <1>3 DEF Pages
<1>6. cards' \in [Typed!Cards -> Typed!AnyCard \cup {NoEndpoint}] /\ \A id \in Ids : CardOf(cards'[id], versions[id], call.list[id])
  BY <1>1, <1>3, <1>4, DrawnIs DEF CardsInv
<1>7. CardsInv'
  BY <1>5, <1>6 DEF CardsInv, CardTypes, CardsAgree
<1>8. ASSUME NEW id \in Typed!Cards, Typed!Dropped(id), ~Typed!OwnAnswer(id), id # New => page'.list[id] # NoEndpoint
      PROVE  FALSE
  <2>1. call.card # id
    BY <1>8 DEF Typed!OwnAnswer
  <2>2. was[id] = cards[id] /\ was[id] # NoEndpoint
    BY <1>8, <2>1 DEF Typed!Closed, Typed!Dropped, Typed!Shown, CardsInv, CardTypes
  <2>3. id # New => was[id].version = versions[id]
    <3>1. id # New => id \in Ids /\ versions[id] = page.versions[id]
      BY <1>1, <1>2, <2>1 DEF Typed!Cards
    <3>. QED  BY <2>2, <3>1 DEF CardsInv, CardsAgree, CardOf
  <2>4. id # New => call.list[id] # NoEndpoint
    BY <1>5, <1>8
  <2>5. PICK next : next = call.list
    OBVIOUS
  <2>6. Typed!Drawn(next, versions, was)[id] = was[id]
    <3>1. id # New => next[id] # NoEndpoint /\ was[id].version = versions[id]
      BY <2>3, <2>4, <2>5
    <3>2. id \in Typed!Cards /\ was[id] # NoEndpoint
      BY <2>2
    <3>. QED  BY ONLY <3>1, <3>2, Typed!CardsAssumption DEF Typed!Drawn
  <2>7. cards'[id] = cards[id]
    BY <2>2, <2>5, <2>6
  <2>. QED  BY <1>8, <2>2, <2>7 DEF Typed!Dropped
<1>. QED  BY <1>7, <1>8

LEMMA AnsweredCardsInv ==
  ASSUME Typed!CardsAssumption, CardsInv, Typed!Answered
  PROVE  /\ CardsInv'
         /\ \A id \in Typed!Cards : Typed!Dropped(id) => Typed!OwnAnswer(id) \/ (id # New /\ page'.list[id] = NoEndpoint)
<1>1. PICK call \in calls :
        /\ calls' = calls \ {call}
        /\ LET id == call.card
               mine == Typed!Shown(id) /\ call.n > cards[id].since
               versions == IF id = New THEN page.versions ELSE [page.versions EXCEPT ![id] = @ + 1]
               was == IF Typed!Closed(call) THEN [cards EXCEPT ![New] = NoEndpoint] ELSE cards
           IN IF call.state = "answered" /\ call.ok
              THEN /\ page' = [page EXCEPT !.list = call.list, !.versions = versions]
                   /\ cards' = Typed!Drawn(call.list, versions, was)
              ELSE /\ cards' = IF mine THEN [cards EXCEPT ![id].busy = FALSE, ![id].failed = TRUE] ELSE cards
                   /\ UNCHANGED page
  BY DEF Typed!Answered
<1>2. UNCHANGED <<list, done>>
  BY DEF Typed!Answered
<1>3. CASE call.state = "answered" /\ call.ok
  <2>1. PICK versions : versions = IF call.card = New THEN page.versions ELSE [page.versions EXCEPT ![call.card] = @ + 1]
    OBVIOUS
  <2>2. PICK was : was = IF Typed!Closed(call) THEN [cards EXCEPT ![New] = NoEndpoint] ELSE cards
    OBVIOUS
  <2>3. page' = [page EXCEPT !.list = call.list, !.versions = versions] /\ cards' = Typed!Drawn(call.list, versions, was)
    BY <1>1, <1>3, <2>1, <2>2
  <2>. QED  BY <1>1, <1>2, <1>3, <2>1, <2>2, <2>3, ListedCardsInv
<1>4. CASE ~(call.state = "answered" /\ call.ok)
  <2>1. PICK mine \in BOOLEAN : mine = (Typed!Shown(call.card) /\ call.n > cards[call.card].since)
    BY DEF Typed!Shown
  <2>2. mine => Typed!Shown(call.card)
    BY <2>1
  <2>3. cards' = IF mine THEN [cards EXCEPT ![call.card].busy = FALSE, ![call.card].failed = TRUE] ELSE cards
    BY <1>1, <1>4, <2>1
  <2>4. UNCHANGED page
    BY <1>1, <1>4
  <2>. QED  BY <1>1, <1>2, <2>2, <2>3, <2>4, RefusedCardsInv
<1>. QED  BY <1>3, <1>4

-----------------------------------------------------------------------------
LEMMA UntouchedStays ==
  ASSUME NEW id \in Typed!Cards, cards' = cards
  PROVE  ~Typed!Dropped(id)
BY DEF Typed!Dropped, Typed!Shown

\* A change to one card that keeps its form.
LEMMA FormStays ==
  ASSUME Typed!CardsAssumption, CardsInv, NEW i \in Typed!Cards, NEW card \in Typed!AnyCard, cards' = [cards EXCEPT ![i] = card],
         card.form = cards[i].form, NEW id \in Typed!Cards
  PROVE  ~Typed!Dropped(id)
<1>1. card # NoEndpoint
  BY DEF Typed!CardsAssumption
<1>. QED  BY <1>1 DEF Typed!Dropped, CardsInv, CardTypes, Typed!Shown

LEMMA LoadKeeps ==
  ASSUME Typed!CardsAssumption, CardsInv, Typed!Load, NEW id \in Typed!Cards, Typed!Dropped(id)
  PROVE  id # New /\ page'.list[id] = NoEndpoint
<1>1. page'.list = list /\ cards' = Typed!Drawn(list, page.versions, cards) /\ cards[id] # NoEndpoint
  BY DEF Typed!Load, CardsInv, CardTypes, Pages, Typed!Dropped, Typed!Shown
<1>2. id # New => cards[id].version = page.versions[id]
  BY <1>1 DEF CardsInv, CardsAgree, CardOf, Typed!Cards
<1>3. ASSUME id # New => list[id] # NoEndpoint  PROVE FALSE
  <2>1. cards'[id] = cards[id]
    BY <1>1, <1>2, <1>3, DrawnLeaves
  <2>. QED  BY <1>1, <2>1 DEF Typed!Dropped
<1>. QED  BY <1>1, <1>3

\* What is typed in a card goes by typing, by its Cancel, by the answer to a call of its
\* Endpoint's card, or because its Endpoint is no longer in the list (EndpointCard.tsx).
THEOREM TypedStays == Typed!CardsAssumption => (Typed!CardsSpec => [][Typed!KeepsWhatIsTyped]_(Typed!cardVars))
<1>. SUFFICES ASSUME Typed!CardsAssumption  PROVE Typed!CardsSpec => [][Typed!KeepsWhatIsTyped]_(Typed!cardVars)
  OBVIOUS
<1>1. Typed!CardsInit => CardsInv
  BY InitCardsInv
<1>2. CardsInv /\ [Typed!CardsNext]_(Typed!cardVars) => CardsInv' /\ [Typed!KeepsWhatIsTyped]_(Typed!cardVars)
  <2>. SUFFICES ASSUME CardsInv, [Typed!CardsNext]_(Typed!cardVars)  PROVE CardsInv' /\ [Typed!KeepsWhatIsTyped]_(Typed!cardVars)
    OBVIOUS
  <2>1. CASE UNCHANGED Typed!cardVars
    BY <2>1, SameCardsInv
  <2>2. CASE Typed!Load
    BY <2>2, LoadCardsInv, LoadKeeps DEF Typed!KeepsWhatIsTyped
  <2>3. CASE Typed!LoadFails
    BY <2>3, LoadFailsCardsInv, UntouchedStays DEF Typed!LoadFails, Typed!KeepsWhatIsTyped
  <2>4. CASE Typed!Add
    <3>1. \A id \in Typed!Cards : ~Typed!Dropped(id)
      BY <2>4 DEF Typed!Add, Typed!Dropped, Typed!Shown, CardsInv, CardTypes
    <3>. QED  BY <2>4, <3>1, AddCardsInv DEF Typed!KeepsWhatIsTyped
  <2>5. CASE Typed!Answered
    BY <2>5, AnsweredCardsInv DEF Typed!KeepsWhatIsTyped
  <2>6. CASE Typed!Serve
    BY <2>6, ServeCardsInv, UntouchedStays DEF Typed!Serve, Typed!KeepsWhatIsTyped
  <2>7. CASE Typed!Fail
    BY <2>7, FailCardsInv, UntouchedStays DEF Typed!Fail, Typed!KeepsWhatIsTyped
  <2>8. CASE Typed!Elsewhere
    BY <2>8, ElsewhereCardsInv, UntouchedStays DEF Typed!Elsewhere, Typed!KeepsWhatIsTyped
  <2>9. ASSUME NEW id \in Typed!Cards, Typed!Type(id) \/ Typed!Cancel(id) \/ Typed!AskRemove(id) \/ Typed!Keep(id) \/ Typed!Save(id) \/ Typed!Remove(id)
        PROVE  CardsInv' /\ Typed!KeepsWhatIsTyped
    <3>1. CASE Typed!Type(id)
      BY <3>1, TypeCardsInv DEF Typed!KeepsWhatIsTyped
    <3>2. CASE Typed!Cancel(id)
      <4>1. \A i \in Typed!Cards : i # id => ~Typed!Dropped(i)
        BY <3>2 DEF Typed!Cancel, Typed!Dropped, Typed!Shown, CardsInv, CardTypes
      <4>. QED  BY <3>2, <4>1, CancelCardsInv DEF Typed!KeepsWhatIsTyped
    <3>3. CASE Typed!AskRemove(id) \/ Typed!Keep(id)
      <4>1. \A i \in Typed!Cards : ~Typed!Dropped(i)
        BY <3>3, FlagsCardsInv, FormStays
      <4>. QED  BY <3>3, <4>1, FlagsCardsInv DEF Typed!KeepsWhatIsTyped
    <3>4. CASE Typed!Save(id) \/ Typed!Remove(id)
      <4>1. \A i \in Typed!Cards : ~Typed!Dropped(i)
        BY <3>4, RunCardsInv, FormStays
      <4>. QED  BY <3>4, <4>1, RunCardsInv DEF Typed!KeepsWhatIsTyped
    <3>. QED  BY <2>9, <3>1, <3>2, <3>3, <3>4
  <2>. QED  BY <2>1, <2>2, <2>3, <2>4, <2>5, <2>6, <2>7, <2>8, <2>9 DEF Typed!CardsNext
<1>. QED  BY <1>1, <1>2, PTL DEF Typed!CardsSpec

-----------------------------------------------------------------------------
(***************************************************************************)
(* Tweaks: at rest, the copy is what is saved.                             *)
(***************************************************************************)
CONSTANTS NoCopy, Choices, Medium, Grace, Elements, Gone, Screens, MaxSaves, MaxReads, MaxDrops, MaxDraws

VARIABLES kept, saving, signals, copy, style, connected, heard, reads, answers, bySave, screen, text, phone, firstSeen,
          warned, scans, clock, saves, asked, drops, draws

Choosing == INSTANCE Tweaks WITH stored <- kept, page <- screen

AnyTweaks == [Choosing!Keys -> Choices]
AnySave == [n : Nat, key : Choosing!Keys, value : Choices, own : BOOLEAN, step : {"set", "read"}]
AnyRead == [seen : Nat, step : {"asked", "served"}, value : AnyTweaks]
TweakTypes ==
  /\ kept \in AnyTweaks /\ saves \in Nat /\ saving \subseteq AnySave
  /\ signals \in Seq(AnyTweaks) /\ heard \in Nat
  /\ reads \subseteq AnyRead

\* No save has stored a choice that it has not signalled yet.
AllPublished == \A s \in saving : s.step # "read"
LastIsStored == signals # <<>> => signals[Len(signals)] = kept
CopyStands == copy # NoCopy => copy = kept \/ bySave
\* Reads: one at a time, asked no later than now; one that would be applied has seen what is stored, and
\* stands for a copy that need not.
OneRead == \A r, q \in reads : r = q
ReadStands(r) == r.step = "served" /\ r.seen = heard => r.value = kept
ReadsStand ==
  /\ OneRead
  /\ \A r \in reads : r.seen <= heard
  /\ ~connected => signals = <<>>
AtRest ==
  connected /\ signals = <<>> =>
    /\ \A r \in reads : ReadStands(r)
    /\ (\A r \in reads : r.seen # heard) => CopyStands
TweakInv ==
  /\ TweakTypes /\ ReadsStand
  /\ AllPublished => LastIsStored /\ AtRest
LEMMA AsideTweaks ==
  ASSUME TweakInv, UNCHANGED Choosing!dataVars
  PROVE  TweakInv'
BY DEF TweakInv, TweakTypes, ReadsStand, OneRead, AllPublished, LastIsStored, AtRest, ReadStands, CopyStands, Choosing!dataVars

\* The window has a signal to hear, or is not connected.
LEMMA BusyTweaks ==
  ASSUME TweakTypes', ReadsStand', signals' # <<>> \/ ~connected', AllPublished' => LastIsStored'
  PROVE  TweakInv'
BY DEF TweakInv, AtRest

\* A save that reads again has a signal to send.
LEMMA UnpublishedTweaks ==
  ASSUME TweakTypes', ReadsStand', ~AllPublished'
  PROVE  TweakInv'
BY DEF TweakInv

LEMMA ChooseTweaks ==
  ASSUME TweakInv, Choosing!ChooseTweak
  PROVE  TweakInv'
<1>1. PICK k \in Choosing!Keys, v \in Choices, own \in BOOLEAN :
        saving' = saving \cup {[n |-> saves, key |-> k, value |-> v, own |-> own, step |-> "set"]}
  BY DEF Choosing!ChooseTweak
<1>2. PICK new : new = [n |-> saves, key |-> k, value |-> v, own |-> own, step |-> "set"]
  OBVIOUS
<1>3. new \in AnySave /\ new.step # "read" /\ saving' = saving \cup {new}
  BY <1>1, <1>2 DEF AnySave, TweakInv, TweakTypes
<1>4. UNCHANGED <<kept, signals, copy, connected, heard, reads, bySave>> /\ saves' \in Nat
  BY DEF Choosing!ChooseTweak, TweakInv, TweakTypes
<1>5. AllPublished' => AllPublished
  BY <1>3 DEF AllPublished
<1>. QED  BY <1>3, <1>4, <1>5 DEF TweakInv, TweakTypes, ReadsStand, OneRead, LastIsStored, AtRest, ReadStands, CopyStands

LEMMA SetTweaks ==
  ASSUME TweakInv, NEW s \in saving, Choosing!SetKey(s)
  PROVE  TweakInv'
<1>1. PICK new : new = [s EXCEPT !.step = "read"]
  OBVIOUS
<1>2. s \in AnySave
  BY DEF TweakInv, TweakTypes
<1>3. new \in AnySave /\ new.step = "read"
  BY <1>1, <1>2 DEF AnySave
<1>4. saving' = (saving \ {s}) \cup {new}
  BY <1>1 DEF Choosing!SetKey
<1>5. kept' \in AnyTweaks
  BY <1>2 DEF Choosing!SetKey, TweakInv, TweakTypes, AnyTweaks, AnySave
<1>6. UNCHANGED <<signals, connected, heard, reads, saves>>
  BY DEF Choosing!SetKey
<1>7. TweakTypes' /\ ReadsStand'
  BY <1>3, <1>4, <1>5, <1>6 DEF TweakInv, TweakTypes, ReadsStand, OneRead
<1>8. ~AllPublished'
  BY <1>3, <1>4 DEF AllPublished
<1>. QED  BY <1>7, <1>8, UnpublishedTweaks

LEMMA PublishTweaks ==
  ASSUME TweakInv, NEW s \in saving, Choosing!PublishSave(s)
  PROVE  TweakInv'
<1>1. UNCHANGED <<kept, copy, connected, heard, reads, bySave, saves>> /\ saving' \subseteq saving
  BY DEF Choosing!PublishSave
<1>2. kept \in AnyTweaks /\ signals \in Seq(AnyTweaks)
  BY DEF TweakInv, TweakTypes
<1>3. signals' = (IF connected THEN Append(signals, kept) ELSE signals)
  BY DEF Choosing!PublishSave
<1>4. signals' \in Seq(AnyTweaks)
  BY <1>2, <1>3
<1>5. TweakTypes' /\ ReadsStand'
  BY <1>1, <1>3, <1>4 DEF TweakInv, TweakTypes, ReadsStand, OneRead
<1>6. CASE connected
  <2>1. signals' # <<>> /\ signals'[Len(signals')] = kept
    BY <1>2, <1>3, <1>6
  <2>. QED  BY <1>1, <1>5, <2>1, BusyTweaks DEF LastIsStored
<1>7. CASE ~connected
  <2>1. signals' = signals /\ signals = <<>>
    BY <1>3, <1>7 DEF TweakInv, ReadsStand
  <2>. QED  BY <1>1, <1>5, <1>7, <2>1, BusyTweaks DEF LastIsStored
<1>. QED  BY <1>6, <1>7

LEMMA FailSaveTweaks ==
  ASSUME TweakInv, NEW s \in saving, Choosing!FailSave(s)
  PROVE  TweakInv'
<1>1. UNCHANGED <<kept, signals, copy, connected, heard, reads, bySave, saves>> /\ saving' = saving \ {s} /\ s.step = "set"
  BY DEF Choosing!FailSave
<1>2. AllPublished' => AllPublished
  BY <1>1 DEF AllPublished
<1>. QED  BY <1>1, <1>2 DEF TweakInv, TweakTypes, ReadsStand, OneRead, LastIsStored, AtRest, ReadStands, CopyStands

LEMMA SignalTweaks ==
  ASSUME TweakInv, Choosing!HearSignal
  PROVE  TweakInv'
<1>1. UNCHANGED <<kept, saving, connected, reads, saves>> /\ heard' = heard + 1 /\ copy' = Head(signals)
      /\ signals # <<>> /\ signals' = Tail(signals)
  BY DEF Choosing!HearSignal, Choosing!SetCopy
<1>2. signals \in Seq(AnyTweaks) /\ heard \in Nat
  BY DEF TweakInv, TweakTypes
<1>3. signals' \in Seq(AnyTweaks) /\ heard' \in Nat
      /\ (signals' = <<>> => Len(signals) = 1 /\ copy' = signals[Len(signals)])
      /\ (signals' # <<>> => signals'[Len(signals')] = signals[Len(signals)])
  <2>1. Len(signals) \in Nat /\ Len(signals) > 0 /\ copy' = signals[1]
    BY <1>1, <1>2
  <2>2. signals' \in Seq(AnyTweaks) /\ Len(signals') = Len(signals) - 1
        /\ \A i \in 1..Len(signals) - 1 : signals'[i] = signals[i + 1]
    BY <1>1, <1>2
  <2>3. signals' = <<>> => Len(signals) = 1
    BY <2>1, <2>2
  <2>4. ASSUME signals' # <<>>  PROVE signals'[Len(signals')] = signals[Len(signals)]
    <3>1. Len(signals) - 1 \in 1..Len(signals) - 1
      BY <2>1, <2>2, <2>4
    <3>. QED  BY <2>1, <2>2, <3>1
  <2>. QED  BY <1>1, <1>2, <2>1, <2>2, <2>3, <2>4
<1>4. \A r \in reads : r.seen <= heard /\ r.seen \in Nat
  BY DEF TweakInv, TweakTypes, ReadsStand, AnyRead
<1>5. \A r \in reads : r.seen <= heard' /\ r.seen # heard'
  BY <1>1, <1>2, <1>4
<1>6. TweakTypes' /\ ReadsStand'
  BY <1>1, <1>3, <1>5 DEF TweakInv, TweakTypes, ReadsStand, OneRead
<1>7. ASSUME AllPublished'  PROVE LastIsStored' /\ AtRest'
  <2>1. AllPublished /\ signals[Len(signals)] = kept
    BY <1>1, <1>7 DEF AllPublished, TweakInv, LastIsStored
  <2>2. LastIsStored'
    BY <1>1, <1>3, <2>1 DEF LastIsStored
  <2>3. signals' = <<>> => CopyStands'
    BY <1>1, <1>3, <2>1 DEF CopyStands
  <2>4. \A r \in reads' : ReadStands(r)'
    BY <1>1, <1>5 DEF ReadStands
  <2>. QED  BY <2>2, <2>3, <2>4 DEF AtRest
<1>. QED  BY <1>6, <1>7 DEF TweakInv

LEMMA AnswerTweaks ==
  ASSUME TweakInv, Choosing!HearAnswer
  PROVE  TweakInv'
<1>1. UNCHANGED <<kept, saving, signals, connected, heard, reads, saves>> /\ bySave'
  BY DEF Choosing!HearAnswer
<1>. QED  BY <1>1 DEF TweakInv, TweakTypes, ReadsStand, OneRead, AllPublished, LastIsStored, AtRest, ReadStands, CopyStands

\* A read asked now stands for the copy.
LEMMA AskedTweaks ==
  ASSUME TweakInv, reads' = {[seen |-> heard, step |-> "asked", value |-> kept]},
         UNCHANGED <<kept, saving, signals, copy, heard, bySave, saves>>, connected' \/ connected' = connected
  PROVE  TweakInv'
<1>1. PICK r : r = [seen |-> heard, step |-> "asked", value |-> kept]
  OBVIOUS
<1>2. r \in AnyRead /\ r.seen = heard /\ r.step # "served" /\ reads' = {r}
  BY <1>1 DEF TweakInv, TweakTypes, AnyRead
<1>3. TweakTypes' /\ ReadsStand'
  BY <1>2 DEF TweakInv, TweakTypes, ReadsStand, OneRead
<1>4. AtRest'
  BY <1>2 DEF AtRest, ReadStands
<1>5. AllPublished' => LastIsStored'
  BY DEF TweakInv, AllPublished, LastIsStored
<1>. QED  BY <1>3, <1>4, <1>5 DEF TweakInv

LEMMA ServedTweaks ==
  ASSUME TweakInv, Choosing!ServeRead
  PROVE  TweakInv'
<1>1. PICK r \in reads : reads' = {[r EXCEPT !.step = "served", !.value = kept]}
  BY DEF Choosing!ServeRead
<1>2. PICK q : q = [r EXCEPT !.step = "served", !.value = kept]
  OBVIOUS
<1>3. r \in AnyRead
  BY DEF TweakInv, TweakTypes
<1>4. q \in AnyRead /\ q.seen = r.seen /\ q.value = kept /\ reads' = {q}
  BY <1>1, <1>2, <1>3 DEF AnyRead, TweakInv, TweakTypes
<1>5. UNCHANGED <<kept, saving, signals, copy, connected, heard, bySave, saves>>
  BY DEF Choosing!ServeRead
<1>6. TweakTypes' /\ ReadsStand'
  BY <1>4, <1>5 DEF TweakInv, TweakTypes, ReadsStand, OneRead
<1>7. \A p \in reads : p = r
  BY DEF TweakInv, ReadsStand, OneRead
<1>8. (\A p \in reads' : p.seen # heard') => (\A p \in reads : p.seen # heard)
  BY <1>4, <1>5, <1>7
<1>9. AllPublished' => AllPublished /\ LastIsStored' /\ AtRest'
  <2>1. \A p \in reads' : ReadStands(p)'
    BY <1>4, <1>5 DEF ReadStands
  <2>. QED  BY <1>5, <1>8, <2>1 DEF TweakInv, AllPublished, LastIsStored, AtRest, CopyStands
<1>. QED  BY <1>6, <1>9 DEF TweakInv

LEMMA HeardTweaks ==
  ASSUME TweakInv, Choosing!HearRead
  PROVE  TweakInv'
<1>1. PICK r \in reads :
        /\ r.step = "served"
        /\ copy' = IF Choosing!AppliesRead(r) THEN r.value ELSE copy
        /\ bySave' = (bySave /\ ~Choosing!AppliesRead(r))
        /\ reads' = {}
  BY DEF Choosing!HearRead, Choosing!SetCopy
<1>2. UNCHANGED <<kept, saving, signals, connected, heard, saves>>
  BY DEF Choosing!HearRead
<1>3. TweakTypes' /\ ReadsStand'
  BY <1>1, <1>2 DEF TweakInv, TweakTypes, ReadsStand, OneRead
<1>4. ASSUME AllPublished'  PROVE LastIsStored' /\ AtRest'
  <2>1. AllPublished /\ LastIsStored'
    BY <1>2, <1>4 DEF TweakInv, AllPublished, LastIsStored
  <2>2. ASSUME connected, signals = <<>>  PROVE CopyStands'
    <3>1. CASE Choosing!AppliesRead(r)
      <4>1. r.value = kept
        BY <1>1, <2>1, <2>2, <3>1 DEF TweakInv, AtRest, ReadStands, Choosing!AppliesRead
      <4>. QED  BY <1>1, <1>2, <3>1, <4>1 DEF CopyStands
    <3>2. CASE ~Choosing!AppliesRead(r)
      <4>1. \A p \in reads : p.seen # heard
        BY <3>2 DEF Choosing!AppliesRead, TweakInv, ReadsStand, OneRead
      <4>2. CopyStands
        BY <2>1, <2>2, <4>1 DEF TweakInv, AtRest
      <4>. QED  BY <1>1, <1>2, <3>2, <4>2 DEF CopyStands
    <3>. QED  BY <3>1, <3>2
  <2>. QED  BY <1>1, <1>2, <2>1, <2>2 DEF AtRest
<1>. QED  BY <1>3, <1>4 DEF TweakInv

LEMMA DisconnectTweaks ==
  ASSUME TweakInv, Choosing!Disconnect
  PROVE  TweakInv'
<1>1. UNCHANGED <<kept, saving, heard, saves>> /\ ~connected' /\ signals' = <<>> /\ reads' = {}
  BY DEF Choosing!Disconnect
<1>2. TweakTypes' /\ ReadsStand'
  BY <1>1 DEF TweakInv, TweakTypes, ReadsStand, OneRead
<1>. QED  BY <1>1, <1>2, BusyTweaks DEF LastIsStored

LEMMA InitTweaks ==
  ASSUME Choosing!TweaksInit, Medium \in Choices
  PROVE  TweakInv
BY DEF Choosing!TweaksInit, TweakInv, TweakTypes, AnyTweaks, ReadsStand, OneRead, AllPublished, LastIsStored, AtRest, CopyStands

LEMMA TweakStep ==
  ASSUME TweakInv, [Choosing!TweaksNext]_(Choosing!tvars)
  PROVE  TweakInv'
<1>1. CASE Choosing!ChooseTweak
  BY <1>1, ChooseTweaks
<1>2. ASSUME NEW s \in saving, Choosing!SetKey(s) \/ Choosing!PublishSave(s) \/ Choosing!FailSave(s)  PROVE TweakInv'
  BY <1>2, SetTweaks, PublishTweaks, FailSaveTweaks
<1>3. CASE Choosing!HearSignal
  BY <1>3, SignalTweaks
<1>4. CASE Choosing!HearAnswer
  BY <1>4, AnswerTweaks
<1>5. CASE Choosing!AskRead \/ Choosing!FailRead \/ Choosing!Reconnect
  BY <1>5, AskedTweaks DEF Choosing!AskRead, Choosing!FailRead, Choosing!Reconnect
<1>6. CASE Choosing!ServeRead
  BY <1>6, ServedTweaks
<1>7. CASE Choosing!HearRead
  BY <1>7, HeardTweaks
<1>8. CASE Choosing!Disconnect
  BY <1>8, DisconnectTweaks
<1>9. CASE Choosing!Draw \/ Choosing!Scan \/ Choosing!TweaksTick
  BY <1>9, AsideTweaks DEF Choosing!Draw, Choosing!Scan, Choosing!TweaksTick
<1>10. CASE UNCHANGED Choosing!tvars
  BY <1>10, AsideTweaks DEF Choosing!tvars, Choosing!dataVars
<1>. QED  BY <1>1, <1>2, <1>3, <1>4, <1>5, <1>6, <1>7, <1>8, <1>9, <1>10 DEF Choosing!TweaksNext

\* With nothing on its way, a connected window's copy is what is saved, or its own save's answer: a read that answers after a
\* signal does not undo it, and a signal missed while disconnected is made good (ui-tweaks/state.ts).
THEOREM CopyIsTheSaved == Choosing!TweaksAssumption => (Choosing!TweaksSpec => []Choosing!CopyIsSaved)
<1>. SUFFICES ASSUME Choosing!TweaksAssumption  PROVE Choosing!TweaksSpec => []Choosing!CopyIsSaved
  OBVIOUS
<1>1. Medium \in Choices
  BY DEF Choosing!TweaksAssumption
<1>2. Choosing!TweaksInit => TweakInv
  BY <1>1, InitTweaks
<1>3. TweakInv => Choosing!CopyIsSaved
  BY DEF TweakInv, AllPublished, AtRest, CopyStands, Choosing!CopyIsSaved
<1>. QED  BY <1>2, <1>3, TweakStep, PTL DEF Choosing!TweaksSpec

-----------------------------------------------------------------------------
(***************************************************************************)
(* UsageViews: a view at rest shows what the server has.                   *)
(***************************************************************************)
CONSTANTS Threads, Parent, Recent, Kinds, Switches, NoChoice, NoData, MaxSpent, MaxSwitches, MaxQueue

VARIABLES bb, server, queue, view, loads, refreshing, acting, counts

Viewing == INSTANCE UsageViews WITH signals <- queue, calls <- loads, done <- counts

ViewFields == {"kind", "choice", "tree", "data", "error", "loading", "seq", "timer"}
CallFields == {"n", "choice", "state", "value"}
Signal == [channel : {"usage", "backfill"}, threads : {{}} \cup {Viewing!AboveOrSelf(t) : t \in Threads}]
CallIs(c) == DOMAIN c = CallFields /\ c.n \in Nat /\ c.state \in {"asked", "answered", "failed"}
ViewTypes ==
  /\ DOMAIN bb = {"threads", "spent"} /\ bb.threads \subseteq Threads /\ DOMAIN bb.spent = Threads
  /\ DOMAIN server = {"tokens", "read", "prices", "backfill"} /\ DOMAIN server.tokens = Threads
  /\ queue \in Seq(Signal)
  /\ DOMAIN view = ViewFields /\ view.seq \in Nat /\ view.kind \in {"tab", "chip", "page", "settings"}
  /\ view.choice \in CASE view.kind \in {"tab", "chip"} -> bb.threads [] view.kind = "page" -> {7, 30} [] view.kind = "settings" -> {0}
  /\ refreshing \subseteq Threads
  /\ \A c \in loads : CallIs(c)
  /\ view.kind \in {"tab", "chip"} => view.timer \in {NoChoice} \cup Threads /\ \A c \in loads : c.choice \in Threads

\* What the view would load now, and the signals that tell of a change to it.
Now == Viewing!AnswerAs(server, view.kind, view.choice)
Tells(signal) ==
  IF signal.channel = "backfill" THEN view.kind = "settings"
  ELSE view.kind \in {"page", "settings"} \/ signal.threads = {} \/ view.choice \in signal.threads
ChangeTold == \E i \in DOMAIN queue : Tells(queue[i])
\* A load is to come.
LoadToCome == view.timer # NoChoice \/ acting # {} \/ ChangeTold
IsFresh(answer) == answer.choice = view.choice => answer = Now \/ LoadToCome

\* The tab goes by its own thread, whatever else.
TabStays ==
  view.kind = "tab" => /\ view.choice \in view.tree /\ view.timer \in {NoChoice, view.choice}
                       /\ \A c \in loads : c.choice = view.choice /\ (c.state = "answered" => view.choice \in DOMAIN c.value.tokens)
CallsNumbered ==
  /\ \A c \in loads : c.n <= view.seq
  /\ \A c, d \in loads : c.n = d.n => c = d
\* What the newest call brought, or will bring.
NewestIsFresh ==
  /\ \A c \in loads : c.n = view.seq /\ c.state = "answered" => IsFresh(c.value)
  /\ (\A c \in loads : c.n # view.seq) => view.error \/ IsFresh(view.data)
ViewsInv == ViewTypes /\ TabStays /\ CallsNumbered /\ NewestIsFresh

CoveredNow == Viewing!Covers(view.kind, view.choice)

LEMMA SameAnswer ==
  ASSUME view' = view, CoveredNow' = CoveredNow, \A u \in CoveredNow : server'.tokens[u] = server.tokens[u],
         server'.prices = server.prices, view.kind = "settings" => server'.backfill = server.backfill
  PROVE  Now' = Now
<1>1. [u \in CoveredNow |-> server.tokens[u]]' = [u \in CoveredNow |-> server.tokens[u]]
  OBVIOUS
<1>2. Now = [choice |-> view.choice, tokens |-> [u \in CoveredNow |-> server.tokens[u]], prices |-> server.prices,
             backfill |-> IF view.kind = "settings" THEN server.backfill ELSE <<>>]
  BY DEF Now, Viewing!AnswerAs, CoveredNow
<1>3. Now' = [choice |-> view'.choice, tokens |-> [u \in CoveredNow |-> server.tokens[u]]', prices |-> server'.prices,
              backfill |-> IF view'.kind = "settings" THEN server'.backfill ELSE <<>>]
  BY DEF Now, Viewing!AnswerAs, CoveredNow
<1>. QED  BY <1>1, <1>2, <1>3

LEMMA SameCovered ==
  ASSUME view' = view, bb'.threads = bb.threads
  PROVE  CoveredNow' = CoveredNow
BY DEF CoveredNow, Viewing!Covers, Viewing!TreeIdsOf

\* A step that leaves the view and its calls: the view would load the same, or something tells of the change.
LEMMA AsideViews ==
  ASSUME ViewsInv, ViewTypes', view' = view, loads' = loads, Now' = Now \/ LoadToCome', LoadToCome => LoadToCome'
  PROVE  ViewsInv'
<1>1. ASSUME NEW answer, IsFresh(answer)  PROVE answer.choice = view'.choice => answer = Now' \/ LoadToCome'
  BY <1>1 DEF IsFresh
<1>2. TabStays' /\ CallsNumbered'
  BY DEF ViewsInv, TabStays, CallsNumbered
<1>3. NewestIsFresh'
  <2>1. ASSUME NEW c \in loads, c.n = view.seq, c.state = "answered"
        PROVE  c.value.choice = view'.choice => c.value = Now' \/ LoadToCome'
    BY <1>1, <2>1 DEF ViewsInv, NewestIsFresh
  <2>2. ASSUME \A c \in loads : c.n # view.seq, ~view.error
        PROVE  view.data.choice = view'.choice => view.data = Now' \/ LoadToCome'
    BY <1>1, <2>2 DEF ViewsInv, NewestIsFresh
  <2>. QED  BY <2>1, <2>2 DEF NewestIsFresh, IsFresh
<1>. QED  BY <1>2, <1>3 DEF ViewsInv

LEMMA AppendTells ==
  ASSUME queue \in Seq(Signal), view' = view, NEW x \in Signal, queue' = Append(queue, x)
  PROVE  /\ queue' \in Seq(Signal) /\ (ChangeTold => ChangeTold')
         /\ (Tells(x) => ChangeTold')
<1>1. /\ queue' \in Seq(Signal) /\ Len(queue') = Len(queue) + 1 /\ queue'[Len(queue) + 1] = x
      /\ \A i \in 1..Len(queue) : queue'[i] = queue[i]
  OBVIOUS
<1>2. DOMAIN queue = 1..Len(queue) /\ DOMAIN queue' = 1..Len(queue') /\ Len(queue) \in Nat
  BY <1>1
<1>3. \A s : Tells(s)' = Tells(s)
  BY DEF Tells
<1>. QED  BY <1>1, <1>2, <1>3 DEF ChangeTold

\* A new call is the newest, and its answer is to come.
LEMMA AsksAgain ==
  ASSUME ViewsInv, ViewTypes', NEW c, loads' = loads \cup {c}, view'.seq = view.seq + 1,
         c.n = view.seq + 1, c.state = "asked", view'.kind = view.kind,
         view.kind = "tab" => /\ view'.choice = view.choice /\ view'.tree = view.tree /\ c.choice = view.choice
                                 /\ view'.timer \in {NoChoice, view.timer}
  PROVE  ViewsInv'
<1>1. view.seq \in Nat /\ \A d \in loads : d.n \in Nat /\ d.n <= view.seq
  BY DEF ViewsInv, ViewTypes, CallIs, CallsNumbered
<1>2. TabStays'
  BY DEF ViewsInv, TabStays
<1>3. CallsNumbered'
  BY <1>1 DEF ViewsInv, CallsNumbered
<1>4. NewestIsFresh'
  BY <1>1 DEF NewestIsFresh
<1>. QED  BY <1>2, <1>3, <1>4 DEF ViewsInv

LEMMA NewCall ==
  ASSUME ViewTypes, NEW choice
  PROVE  /\ CallIs(Viewing!CallFor(view, choice)) /\ Viewing!CallFor(view, choice).n = view.seq + 1
         /\ Viewing!CallFor(view, choice).state = "asked" /\ Viewing!CallFor(view, choice).choice = choice
BY DEF ViewTypes, CallIs, Viewing!CallFor, CallFields

LEMMA ChooseFollows ==
  ASSUME ViewsInv, "tab" \notin Switches, Viewing!Choose
  PROVE  ViewsInv'
<1>1. PICK choice \in Viewing!ChoicesOf(view.kind) :
        /\ view' = Viewing!Reloading([view EXCEPT !.choice = choice]) /\ loads' = loads \cup {Viewing!CallFor(view, choice)}
  BY DEF Viewing!Choose
<1>2. view.kind # "tab" /\ UNCHANGED <<bb, server, queue>> /\ refreshing' = refreshing
  BY DEF Viewing!Choose
<1>3. ViewTypes
  BY DEF ViewsInv
<1>4. DOMAIN view' = ViewFields /\ view'.seq = view.seq + 1 /\ view'.kind = view.kind /\ view'.choice = choice
  BY <1>1, <1>3 DEF Viewing!Reloading, ViewTypes, ViewFields
<1>6. view'.timer = view.timer /\ (view.kind = "chip" => choice \in Threads)
  BY <1>1, <1>3 DEF Viewing!Reloading, ViewTypes, ViewFields, Viewing!ChoicesOf
<1>7. PICK c : c = Viewing!CallFor(view, choice)
  OBVIOUS
<1>8. CallIs(c) /\ c.choice = choice
  BY <1>3, <1>7, NewCall
<1>5. ViewTypes'
  BY <1>1, <1>2, <1>3, <1>4, <1>6, <1>7, <1>8 DEF ViewTypes, Viewing!ChoicesOf
<1>. QED  BY <1>1, <1>2, <1>3, <1>4, <1>5, NewCall, AsksAgain

LEMMA AgainTypes ==
  ASSUME ViewsInv, UNCHANGED <<bb, server, refreshing>>, queue' \in Seq(Signal), NEW choice,
         view.kind = "tab" => choice = view.choice, view.kind = "chip" => choice \in Threads,
         NEW v, v \in {view, [view EXCEPT !.timer = NoChoice]},
         view' = Viewing!Reloading(v), loads' = loads \cup {Viewing!CallFor(view, choice)}
  PROVE  ViewsInv'
<1>1. ViewTypes
  BY DEF ViewsInv
<1>2. /\ DOMAIN view' = ViewFields /\ view'.seq = view.seq + 1 /\ view'.kind = view.kind /\ view'.choice = view.choice
      /\ view'.tree = view.tree /\ view'.timer \in {NoChoice, view.timer}
  BY <1>1 DEF Viewing!Reloading, ViewTypes, ViewFields
<1>3. ViewTypes'
  BY <1>1, <1>2, NewCall DEF ViewTypes
<1>. QED  BY <1>1, <1>2, <1>3, NewCall, AsksAgain

LEMMA TailTypes ==
  ASSUME ViewTypes, queue # <<>>
  PROVE  /\ Tail(queue) \in Seq(Signal) /\ Head(queue) \in Signal
         /\ Len(queue) \in Nat /\ Len(queue) > 0 /\ Head(queue) = queue[1]
         /\ DOMAIN queue = 1..Len(queue) /\ DOMAIN Tail(queue) = 1..(Len(queue) - 1)
         /\ \A i \in 1..(Len(queue) - 1) : Tail(queue)[i] = queue[i + 1]
BY DEF ViewTypes

\* A signal that tells of a change to the view sets its timer.
LEMMA TellingIsHeard ==
  ASSUME ViewsInv, NEW signal \in Signal, signal.channel = "usage", Tells(signal)
  PROVE  Viewing!Touches(signal)
BY DEF Tells, Viewing!Touches, ViewsInv, TabStays, ViewTypes

LEMMA HearFollows ==
  ASSUME Viewing!ViewsAssumption, ViewsInv, Viewing!Hear
  PROVE  ViewsInv'
<1>1. queue # <<>> /\ queue' = Tail(queue) /\ UNCHANGED <<bb, server, refreshing, acting>>
  BY DEF Viewing!Hear
<1>2. ViewTypes
  BY DEF ViewsInv
<1>. DEFINE signal == Head(queue)
<1>3. CASE signal.channel = "backfill" /\ view.kind = "settings"
  <2>1. view' = Viewing!Reloading(view) /\ loads' = loads \cup {Viewing!CallFor(view, view.choice)}
    BY <1>3 DEF Viewing!Hear
  <2>2. queue' \in Seq(Signal)
    BY <1>1, <1>2, TailTypes
  <2>3. PICK choice, v : choice = view.choice /\ v = view
    OBVIOUS
  <2>4. (view.kind = "tab" => choice = view.choice) /\ (view.kind = "chip" => choice \in Threads)
    BY <1>3, <2>3
  <2>. QED  BY <1>1, <2>1, <2>2, <2>3, <2>4, AgainTypes
<1>4. CASE view' = view /\ loads' = loads /\ ~Tells(signal)
  <2>1. ViewTypes'
    BY <1>1, <1>2, <1>4, TailTypes DEF ViewTypes
  <2>2. Now' = Now
    BY <1>1, <1>4, SameCovered, SameAnswer
  <2>3. ChangeTold => ChangeTold'
    <3>1. \A s : Tells(s)' = Tells(s)
      BY <1>4 DEF Tells
    <3>2. SUFFICES ASSUME NEW i \in DOMAIN queue, Tells(queue[i])  PROVE \E j \in DOMAIN queue' : Tells(queue'[j])
      BY <3>1 DEF ChangeTold
    <3>3. i \in 1..Len(queue) /\ i # 1
      BY <1>1, <1>2, <1>4, <3>2, TailTypes
    <3>4. i - 1 \in DOMAIN queue' /\ queue'[i - 1] = queue[i]
      BY <1>1, <1>2, <3>3, TailTypes
    <3>. QED  BY <3>2, <3>4
  <2>4. LoadToCome => LoadToCome'
    BY <1>1, <1>4, <2>3 DEF LoadToCome
  <2>. QED  BY <1>4, <2>1, <2>2, <2>4, AsideViews
<1>5. CASE signal.channel = "usage" /\ Viewing!Touches(signal)
  <2>1. view' = Viewing!Heard(signal) /\ loads' = loads
    BY <1>5 DEF Viewing!Hear
  <2>2. /\ DOMAIN view' = ViewFields /\ view'.seq = view.seq /\ view'.kind = view.kind /\ view'.choice = view.choice
        /\ view'.tree = view.tree /\ view'.data = view.data /\ view'.error = view.error /\ view'.timer # NoChoice
        /\ view'.timer \in {view.timer, view.choice}
    <3>1. view.choice # NoChoice
      BY <1>2 DEF ViewTypes, Viewing!ViewsAssumption
    <3>. QED  BY <1>2, <2>1, <3>1 DEF ViewTypes, ViewFields, Viewing!Heard
  <2>3. ViewTypes'
    BY <1>1, <1>2, <2>1, <2>2, TailTypes DEF ViewTypes
  <2>4. LoadToCome'
    BY <2>2 DEF LoadToCome
  <2>5. TabStays' /\ CallsNumbered'
    BY <2>1, <2>2 DEF ViewsInv, TabStays, CallsNumbered
  <2>6. NewestIsFresh'
    BY <2>4 DEF NewestIsFresh, IsFresh
  <2>. QED  BY <2>3, <2>5, <2>6 DEF ViewsInv
<1>6. signal \in Signal
  BY <1>1, <1>2, TailTypes
<1>7. CASE signal.channel = "backfill" /\ view.kind # "settings"
  <2>1. view' = view /\ loads' = loads
    BY <1>7 DEF Viewing!Hear
  <2>2. ~Tells(signal)
    BY <1>7 DEF Tells
  <2>. QED  BY <1>4, <2>1, <2>2
<1>8. CASE signal.channel = "usage" /\ ~Viewing!Touches(signal)
  <2>1. view' = view /\ loads' = loads
    BY <1>8 DEF Viewing!Hear
  <2>2. ~Tells(signal)
    BY <1>6, <1>8, TellingIsHeard
  <2>. QED  BY <1>4, <2>1, <2>2
<1>. QED  BY <1>3, <1>5, <1>6, <1>7, <1>8 DEF Signal

LEMMA TimerFollows ==
  ASSUME ViewsInv, Viewing!TimerFires
  PROVE  ViewsInv'
<1>1. PICK choice, v : choice = view.timer /\ v = [view EXCEPT !.timer = NoChoice]
  OBVIOUS
<1>2. (view.kind = "tab" => choice = view.choice) /\ (view.kind = "chip" => choice \in Threads)
  BY <1>1 DEF Viewing!TimerFires, ViewsInv, TabStays, ViewTypes
<1>3. queue' \in Seq(Signal)
  BY DEF Viewing!TimerFires, ViewsInv, ViewTypes
<1>. QED  BY <1>1, <1>2, <1>3, AgainTypes DEF Viewing!TimerFires

LEMMA ActEndsFollows ==
  ASSUME ViewsInv, Viewing!ActEnds
  PROVE  ViewsInv'
<1>1. PICK choice, v : choice = view.choice /\ v = view
  OBVIOUS
<1>3. view.kind = "chip" => choice \in Threads
  BY <1>1 DEF ViewsInv, ViewTypes
<1>2. queue' \in Seq(Signal)
  BY DEF Viewing!ActEnds, ViewsInv, ViewTypes
<1>. QED  BY <1>1, <1>2, <1>3, AgainTypes DEF Viewing!ActEnds

\* Only the newest call's answer, which is fresh, is shown.
LEMMA LandFollows ==
  ASSUME ViewsInv, Viewing!Land
  PROVE  ViewsInv'
<1>1. PICK call \in loads :
        /\ call.state # "asked" /\ loads' = loads \ {call}
        /\ view' = CASE ~Viewing!Lands(call) -> view
                     [] Viewing!Lands(call) /\ call.state = "failed" -> [view EXCEPT !.error = TRUE, !.loading = FALSE]
                     [] OTHER -> [view EXCEPT !.data = call.value, !.error = FALSE, !.loading = FALSE,
                                              !.tree = IF view.kind = "tab" THEN DOMAIN call.value.tokens ELSE @]
  BY DEF Viewing!Land
<1>2. UNCHANGED <<bb, server, queue, refreshing, acting>>
  BY DEF Viewing!Land
<1>3. ViewTypes /\ TabStays /\ CallsNumbered /\ NewestIsFresh
  BY DEF ViewsInv
<1>4. ASSUME DOMAIN view' = ViewFields, view'.kind = view.kind, view'.choice = view.choice, view'.seq = view.seq,
             view'.timer = view.timer, view.kind = "tab" => view.choice \in view'.tree,
             (\A c \in loads' : c.n # view.seq) => view'.error \/ IsFresh(view'.data)
      PROVE  ViewsInv'
  <2>1. ViewTypes' /\ TabStays' /\ CallsNumbered'
    BY <1>1, <1>2, <1>3, <1>4 DEF ViewTypes, TabStays, CallsNumbered
  <2>2. CoveredNow' = CoveredNow
    BY <1>2, <1>4 DEF CoveredNow, Viewing!Covers, Viewing!TreeIdsOf
  <2>3. Now' = Now
    BY <1>2, <1>4, <2>2 DEF Now, Viewing!AnswerAs, CoveredNow
  <2>4. LoadToCome' = LoadToCome
    BY <1>2, <1>4 DEF LoadToCome, ChangeTold, Tells
  <2>5. ASSUME NEW answer, IsFresh(answer)  PROVE answer.choice = view'.choice => answer = Now' \/ LoadToCome'
    BY <1>4, <2>3, <2>4, <2>5 DEF IsFresh
  <2>6. \A c \in loads' : c.n = view'.seq /\ c.state = "answered" => (c.value.choice = view'.choice => c.value = Now' \/ LoadToCome')
    BY <1>1, <1>3, <1>4, <2>5 DEF NewestIsFresh
  <2>7. (\A c \in loads' : c.n # view'.seq) => view'.error \/ (view'.data.choice = view'.choice => view'.data = Now' \/ LoadToCome')
    BY <1>4, <2>5
  <2>8. NewestIsFresh'
    BY <2>6, <2>7 DEF NewestIsFresh, IsFresh
  <2>. QED  BY <2>1, <2>8 DEF ViewsInv
<1>5. CASE ~Viewing!Lands(call)
  <2>1. view' = view
    BY <1>1, <1>5
  <2>2. (\A c \in loads' : c.n # view.seq) => view.error \/ IsFresh(view.data)
    BY <1>1, <1>3, <1>5 DEF NewestIsFresh, Viewing!Lands
  <2>. QED  BY <1>3, <1>4, <2>1, <2>2 DEF ViewTypes, TabStays
<1>6. CASE Viewing!Lands(call) /\ call.state = "failed"
  <2>1. view' = [view EXCEPT !.error = TRUE, !.loading = FALSE]
    BY <1>1, <1>6
  <2>2. /\ DOMAIN view' = ViewFields /\ view'.kind = view.kind /\ view'.choice = view.choice /\ view'.seq = view.seq
        /\ view'.timer = view.timer /\ view'.tree = view.tree /\ view'.error
    BY <1>3, <2>1 DEF ViewTypes, ViewFields
  <2>. QED  BY <1>3, <1>4, <2>2 DEF TabStays
<1>7. CASE Viewing!Lands(call) /\ call.state # "failed"
  <2>1. view' = [view EXCEPT !.data = call.value, !.error = FALSE, !.loading = FALSE,
                             !.tree = IF view.kind = "tab" THEN DOMAIN call.value.tokens ELSE @]
    BY <1>1, <1>7
  <2>2. /\ DOMAIN view' = ViewFields /\ view'.kind = view.kind /\ view'.choice = view.choice /\ view'.seq = view.seq
        /\ view'.timer = view.timer /\ view'.data = call.value
        /\ view'.tree = IF view.kind = "tab" THEN DOMAIN call.value.tokens ELSE view.tree
    BY <1>3, <2>1 DEF ViewTypes, ViewFields
  <2>3. call.state = "answered" /\ call.n = view.seq
    BY <1>1, <1>3, <1>7 DEF Viewing!Lands, ViewTypes, CallIs
  <2>4. IsFresh(view'.data)
    BY <1>3, <2>2, <2>3 DEF NewestIsFresh
  <2>5. view.kind = "tab" => view.choice \in view'.tree
    BY <1>3, <2>2, <2>3 DEF TabStays
  <2>. QED  BY <1>4, <2>2, <2>4, <2>5
<1>. QED  BY <1>5, <1>6, <1>7

\* A catch-up changes what the view would load only where its signal tells of it.
LEMMA CatchUpTells ==
  ASSUME ViewTypes, UNCHANGED <<bb, view>>, NEW t \in Threads,
         server' = Viewing!CaughtUp(server, t), queue' = Viewing!Told(queue, server, t)
  PROVE  /\ queue' \in Seq(Signal) /\ (ChangeTold => ChangeTold') /\ (Now' = Now \/ ChangeTold')
         /\ DOMAIN server' = {"tokens", "read", "prices", "backfill"} /\ DOMAIN server'.tokens = Threads
<1>1. /\ DOMAIN server' = {"tokens", "read", "prices", "backfill"} /\ server'.prices = server.prices /\ server'.backfill = server.backfill
      /\ server'.tokens = [server.tokens EXCEPT ![t] = bb.spent[t]]
  BY DEF Viewing!CaughtUp, ViewTypes
<1>2. DOMAIN server'.tokens = Threads /\ \A u \in Threads : server'.tokens[u] = IF u = t THEN bb.spent[t] ELSE server.tokens[u]
  BY <1>1 DEF ViewTypes
<1>3. CoveredNow' = CoveredNow /\ CoveredNow \subseteq Threads
  <2>1. CoveredNow \subseteq Threads
    BY DEF CoveredNow, Viewing!Covers, Viewing!TreeIdsOf, ViewTypes
  <2>. QED  BY <2>1, SameCovered
<1>4. CASE server.tokens[t] = bb.spent[t]
  <2>1. queue' = queue
    BY <1>4 DEF Viewing!Told
  <2>2. \A u \in Threads : server'.tokens[u] = server.tokens[u]
    BY <1>2, <1>4
  <2>3. Now' = Now
    BY <1>1, <1>3, <2>2, SameAnswer
  <2>4. ChangeTold' = ChangeTold
    BY <2>1 DEF ChangeTold, Tells
  <2>. QED  BY <1>1, <1>2, <2>1, <2>3, <2>4 DEF ViewTypes
<1>5. CASE server.tokens[t] # bb.spent[t]
  <2>1. queue' = Append(queue, Viewing!Named(t)) /\ Viewing!Named(t) \in Signal
    BY <1>5 DEF Viewing!Told, Viewing!Named, Signal
  <2>2. queue' \in Seq(Signal) /\ (ChangeTold => ChangeTold') /\ (Tells(Viewing!Named(t)) => ChangeTold')
    BY <2>1, AppendTells DEF ViewTypes
  <2>3. ASSUME ~Tells(Viewing!Named(t))  PROVE Now' = Now
    <3>1. view.kind \in {"tab", "chip"} /\ view.choice \notin Viewing!AboveOrSelf(t)
      BY <2>3 DEF Tells, Viewing!Named, ViewTypes
    <3>2. t \notin CoveredNow
      BY <3>1 DEF CoveredNow, Viewing!Covers, Viewing!TreeIdsOf
    <3>. QED  BY <1>1, <1>2, <1>3, <3>2, SameAnswer
  <2>. QED  BY <1>1, <1>2, <2>2, <2>3
<1>. QED  BY <1>4, <1>5

\* refresh, and a catch-up later.
LEMMA CaughtUpFollows ==
  ASSUME ViewsInv, UNCHANGED <<bb, view, loads, acting>>, refreshing' \subseteq refreshing, NEW t \in Threads,
         server' = Viewing!CaughtUp(server, t), queue' = Viewing!Told(queue, server, t)
  PROVE  ViewsInv'
<1>1. /\ queue' \in Seq(Signal) /\ (ChangeTold => ChangeTold') /\ (Now' = Now \/ ChangeTold')
      /\ DOMAIN server' = {"tokens", "read", "prices", "backfill"} /\ DOMAIN server'.tokens = Threads
  BY CatchUpTells DEF ViewsInv
<1>2. ViewTypes'
  BY <1>1 DEF ViewsInv, ViewTypes
<1>. QED  BY <1>1, <1>2, AsideViews DEF LoadToCome

\* An answer is of the server as it stands, and what a catch-up for it changed is told.
LEMMA ServeFollows ==
  ASSUME ViewsInv, Viewing!Serve
  PROVE  ViewsInv'
<1>1. UNCHANGED <<bb, view, refreshing, acting>>
  BY DEF Viewing!Serve
<1>2. ViewTypes /\ TabStays /\ CallsNumbered /\ NewestIsFresh
  BY DEF ViewsInv
<1>3. ASSUME NEW call \in loads, NEW new, loads' = (loads \ {call}) \cup {new}, call.state = "asked",
             CallIs(new), new.n = call.n, new.choice = call.choice, new.state # "asked",
             ViewTypes', Now' = Now \/ ChangeTold', ChangeTold => ChangeTold',
             new.state = "answered" =>
               /\ new.value.choice = view.choice => new.value = Now'
               /\ view.kind = "tab" => view.choice \in DOMAIN new.value.tokens
      PROVE  ViewsInv'
  <2>1. TabStays'
    BY <1>1, <1>2, <1>3 DEF TabStays
  <2>2. CallsNumbered'
    BY <1>1, <1>2, <1>3 DEF CallsNumbered
  <2>3. LoadToCome => LoadToCome'
    BY <1>1, <1>3 DEF LoadToCome
  <2>4. ASSUME NEW answer, IsFresh(answer)  PROVE answer.choice = view'.choice => answer = Now' \/ LoadToCome'
    BY <1>1, <1>3, <2>3, <2>4 DEF IsFresh, LoadToCome
  <2>5. ASSUME NEW c \in loads', c.n = view'.seq, c.state = "answered"
        PROVE  c.value.choice = view'.choice => c.value = Now' \/ LoadToCome'
    <3>1. CASE c = new
      BY <1>1, <1>3, <2>5, <3>1
    <3>2. CASE c \in loads
      BY <1>1, <1>2, <2>4, <2>5, <3>2 DEF NewestIsFresh
    <3>. QED  BY <1>3, <3>1, <3>2
  <2>6. ASSUME \A c \in loads' : c.n # view'.seq, ~view'.error
        PROVE  view'.data.choice = view'.choice => view'.data = Now' \/ LoadToCome'
    <3>1. \A c \in loads : c.n # view.seq
      BY <1>1, <1>3, <2>6
    <3>. QED  BY <1>1, <1>2, <2>4, <2>6, <3>1 DEF NewestIsFresh
  <2>7. NewestIsFresh'
    BY <2>5, <2>6 DEF NewestIsFresh, IsFresh
  <2>. QED  BY <1>3, <2>1, <2>2, <2>7 DEF ViewsInv
<1>4. PICK call \in loads :
        /\ call.state = "asked"
        /\ \/ LET unread == view.kind \in {"tab", "chip"} /\ call.choice \notin server.read
                  then == IF unread THEN Viewing!CaughtUp(server, call.choice) ELSE server
              IN /\ server' = then
                 /\ queue' = IF unread THEN Viewing!Told(queue, server, call.choice) ELSE queue
                 /\ loads' = (loads \ {call}) \cup
                      {[call EXCEPT !.state = "answered", !.value = Viewing!AnswerAs(then, view.kind, call.choice)]}
           \/ /\ loads' = (loads \ {call}) \cup {[call EXCEPT !.state = "failed"]}
              /\ UNCHANGED <<server, queue>>
  BY DEF Viewing!Serve
<1>5. CallIs(call)
  BY <1>2 DEF ViewTypes
<1>6. CASE loads' = (loads \ {call}) \cup {[call EXCEPT !.state = "failed"]} /\ UNCHANGED <<server, queue>>
  <2>1. PICK new : new = [call EXCEPT !.state = "failed"]
    OBVIOUS
  <2>2. CallIs(new) /\ new.n = call.n /\ new.choice = call.choice /\ new.state = "failed"
    BY <1>5, <2>1 DEF CallIs, CallFields
  <2>3. ViewTypes'
    BY <1>1, <1>2, <1>6, <2>1, <2>2 DEF ViewTypes
  <2>4. CoveredNow' = CoveredNow
    BY <1>1, SameCovered
  <2>5. Now' = Now /\ ChangeTold' = ChangeTold
    BY <1>1, <1>6, <2>4, SameAnswer DEF ChangeTold, Tells
  <2>. QED  BY <1>3, <1>4, <1>6, <2>1, <2>2, <2>3, <2>5
<1>7. ASSUME UNCHANGED <<bb, view>>, queue' \in Seq(Signal), ChangeTold => ChangeTold', Now' = Now \/ ChangeTold',
             DOMAIN server' = {"tokens", "read", "prices", "backfill"}, DOMAIN server'.tokens = Threads,
             NEW then, server' = then,
             loads' = (loads \ {call}) \cup {[call EXCEPT !.state = "answered", !.value = Viewing!AnswerAs(then, view.kind, call.choice)]}
      PROVE  ViewsInv'
  <2>1. PICK new : new = [call EXCEPT !.state = "answered", !.value = Viewing!AnswerAs(then, view.kind, call.choice)]
    OBVIOUS
  <2>2. /\ CallIs(new) /\ new.n = call.n /\ new.choice = call.choice /\ new.state = "answered"
        /\ new.value = Viewing!AnswerAs(then, view.kind, call.choice)
    BY <1>5, <2>1 DEF CallIs, CallFields
  <2>3. ViewTypes'
    BY <1>1, <1>2, <1>7, <2>1, <2>2 DEF ViewTypes
  <2>4. new.value.choice = call.choice /\ DOMAIN new.value.tokens = Viewing!Covers(view.kind, call.choice)
    BY <2>2 DEF Viewing!AnswerAs
  <2>5. Now' = Viewing!AnswerAs(then, view.kind, view.choice)
    BY <1>7 DEF Now, Viewing!AnswerAs, Viewing!Covers, Viewing!TreeIdsOf
  <2>6. view.kind = "tab" => view.choice \in DOMAIN new.value.tokens
    <3>1. ASSUME view.kind = "tab"  PROVE view.choice \in Viewing!Covers(view.kind, view.choice)
      BY <1>2, <3>1 DEF Viewing!Covers, Viewing!TreeIdsOf, Viewing!AboveOrSelf, ViewTypes
    <3>. QED  BY <1>2, <2>4, <3>1 DEF TabStays
  <2>. QED  BY <1>3, <1>4, <1>7, <2>1, <2>2, <2>3, <2>4, <2>5, <2>6
<1>8. CASE ~(loads' = (loads \ {call}) \cup {[call EXCEPT !.state = "failed"]} /\ UNCHANGED <<server, queue>>)
  <2>1. PICK then : /\ server' = then
                   /\ loads' = (loads \ {call}) \cup {[call EXCEPT !.state = "answered", !.value = Viewing!AnswerAs(then, view.kind, call.choice)]}
    BY <1>4, <1>8
  <2>2. CASE view.kind \in {"tab", "chip"} /\ call.choice \notin server.read
    <3>1. server' = Viewing!CaughtUp(server, call.choice) /\ queue' = Viewing!Told(queue, server, call.choice)
      BY <1>4, <1>8, <2>2
    <3>2. PICK t : t = call.choice
      OBVIOUS
    <3>3. t \in Threads
      BY <1>2, <2>2, <3>2 DEF ViewTypes
    <3>. QED  BY <1>1, <1>2, <1>7, <2>1, <3>1, <3>2, <3>3, CatchUpTells
  <2>3. CASE ~(view.kind \in {"tab", "chip"} /\ call.choice \notin server.read)
    <3>1. server' = server /\ queue' = queue
      BY <1>4, <1>8, <2>3
    <3>2. CoveredNow' = CoveredNow
      BY <1>1, SameCovered
    <3>3. Now' = Now /\ ChangeTold' = ChangeTold
      BY <1>1, <3>1, <3>2, SameAnswer DEF ChangeTold, Tells
    <3>. QED  BY <1>1, <1>2, <1>7, <2>1, <3>1, <3>3 DEF ViewTypes
  <2>. QED  BY <2>2, <2>3
<1>. QED  BY <1>6, <1>8

LEMMA CreatedFollows ==
  ASSUME ViewsInv, Viewing!Created
  PROVE  ViewsInv'
<1>1. PICK t \in Threads \ bb.threads :
        /\ bb' = [bb EXCEPT !.threads = @ \cup {t}] /\ server' = [server EXCEPT !.read = @ \cup {t}]
        /\ queue' = Append(queue, Viewing!Named(t))
  BY DEF Viewing!Created
<1>2. UNCHANGED <<view, loads, refreshing, acting>> /\ ViewTypes
  BY DEF Viewing!Created, ViewsInv
<1>3. /\ DOMAIN bb' = {"threads", "spent"} /\ bb'.threads = bb.threads \cup {t} /\ bb'.spent = bb.spent
      /\ DOMAIN server' = {"tokens", "read", "prices", "backfill"} /\ server'.tokens = server.tokens
      /\ server'.prices = server.prices /\ server'.backfill = server.backfill
  BY <1>1, <1>2 DEF ViewTypes
<1>4. Viewing!Named(t) \in Signal
  BY DEF Viewing!Named, Signal
<1>5. queue' \in Seq(Signal) /\ (ChangeTold => ChangeTold') /\ (Tells(Viewing!Named(t)) => ChangeTold')
  BY <1>1, <1>2, <1>4, AppendTells DEF ViewTypes
<1>6. ViewTypes'
  BY <1>2, <1>3, <1>5 DEF ViewTypes
<1>7. ASSUME ~Tells(Viewing!Named(t))  PROVE Now' = Now
  <2>1. view.kind \in {"tab", "chip"} /\ view.choice \notin Viewing!AboveOrSelf(t)
    BY <1>2, <1>7 DEF Tells, Viewing!Named, ViewTypes
  <2>2. CoveredNow' = CoveredNow
    BY <1>2, <1>3, <2>1 DEF CoveredNow, Viewing!Covers, Viewing!TreeIdsOf
  <2>. QED  BY <1>2, <1>3, <2>2, SameAnswer
<1>. QED  BY <1>2, <1>5, <1>6, <1>7, AsideViews DEF LoadToCome

LEMMA PricesFollow ==
  ASSUME ViewsInv, Viewing!PricesChange
  PROVE  ViewsInv'
<1>1. queue' = Append(queue, Viewing!AllNamed) /\ UNCHANGED <<bb, view, loads, refreshing, acting>> /\ ViewTypes
  BY DEF Viewing!PricesChange, ViewsInv
<1>2. DOMAIN server' = {"tokens", "read", "prices", "backfill"} /\ server'.tokens = server.tokens
  BY <1>1 DEF Viewing!PricesChange, ViewTypes
<1>3. Viewing!AllNamed \in Signal /\ Tells(Viewing!AllNamed)
  BY DEF Viewing!AllNamed, Signal, Tells
<1>4. queue' \in Seq(Signal) /\ ChangeTold'
  BY <1>1, <1>3, AppendTells DEF ViewTypes
<1>5. ViewTypes'
  BY <1>1, <1>2, <1>4 DEF ViewTypes
<1>. QED  BY <1>1, <1>4, <1>5, AsideViews DEF LoadToCome

LEMMA BackfillFollows ==
  ASSUME ViewsInv, Viewing!RunBackfill
  PROVE  ViewsInv'
<1>1. PICK x : x = [channel |-> "backfill", threads |-> {}]
  OBVIOUS
<1>2. queue' = Append(queue, x) /\ UNCHANGED <<bb, view, loads, refreshing, acting>> /\ ViewTypes
  BY <1>1 DEF Viewing!RunBackfill, ViewsInv
<1>3. /\ DOMAIN server' = {"tokens", "read", "prices", "backfill"} /\ server'.tokens = server.tokens
      /\ server'.prices = server.prices
  BY <1>2 DEF Viewing!RunBackfill, ViewTypes
<1>4. x \in Signal /\ (view.kind = "settings" => Tells(x))
  BY <1>1 DEF Signal, Tells
<1>5. queue' \in Seq(Signal) /\ (ChangeTold => ChangeTold') /\ (view.kind = "settings" => ChangeTold')
  BY <1>2, <1>4, AppendTells DEF ViewTypes
<1>6. ViewTypes'
  BY <1>2, <1>3, <1>5 DEF ViewTypes
<1>7. CoveredNow' = CoveredNow
  BY <1>2, SameCovered
<1>8. view.kind # "settings" => Now' = Now
  BY <1>2, <1>3, <1>7, SameAnswer
<1>. QED  BY <1>2, <1>5, <1>6, <1>8, AsideViews DEF LoadToCome

\* A button, and what it makes the server do, whose call is then to end.
LEMMA ButtonFollows ==
  ASSUME ViewsInv, Viewing!Press \/ Viewing!Act
  PROVE  ViewsInv'
<1>1. UNCHANGED <<bb, queue, view, loads, refreshing>> /\ ViewTypes
  BY DEF Viewing!Press, Viewing!Act, ViewsInv
<1>2. DOMAIN server' = {"tokens", "read", "prices", "backfill"} /\ server'.tokens = server.tokens
  BY <1>1 DEF Viewing!Press, Viewing!Act, ViewTypes
<1>3. acting' # {}
  <2>1. CASE Viewing!Press
    <3>1. PICK new : acting' = acting \cup {new}
      BY <2>1 DEF Viewing!Press
    <3>. QED  BY <3>1
  <2>2. CASE Viewing!Act
    <3>1. PICK was, new : acting' = (acting \ {was}) \cup {new}
      BY <2>2 DEF Viewing!Act
    <3>. QED  BY <3>1
  <2>. QED  BY <2>1, <2>2
<1>4. ViewTypes'
  BY <1>1, <1>2 DEF ViewTypes
<1>. QED  BY <1>1, <1>3, <1>4, AsideViews DEF LoadToCome

LEMMA SpendFollows ==
  ASSUME ViewsInv, Viewing!Spend
  PROVE  ViewsInv'
<1>1. PICK t \in bb.threads : bb' = [bb EXCEPT !.spent[t] = @ + 1]
  BY DEF Viewing!Spend
<1>2. UNCHANGED <<server, queue, view, loads, refreshing, acting>> /\ ViewTypes
  BY DEF Viewing!Spend, ViewsInv
<1>3. DOMAIN bb' = {"threads", "spent"} /\ bb'.threads = bb.threads /\ DOMAIN bb'.spent = Threads
  BY <1>1, <1>2 DEF ViewTypes
<1>4. ViewTypes'
  BY <1>2, <1>3 DEF ViewTypes
<1>5. CoveredNow' = CoveredNow
  BY <1>2, <1>3, SameCovered
<1>6. Now' = Now
  BY <1>2, <1>5, SameAnswer
<1>7. LoadToCome' = LoadToCome
  BY <1>2 DEF LoadToCome, ChangeTold, Tells
<1>. QED  BY <1>2, <1>4, <1>6, <1>7, AsideViews

LEMMA InitViews ==
  ASSUME Viewing!ViewsAssumption, Viewing!ViewsInit
  PROVE  ViewsInv
<1>1. PICK kind \in Kinds : \E choice \in Viewing!ChoicesOf(kind) :
         LET opened == [kind |-> kind, choice |-> choice, tree |-> {choice}, data |-> NoData, error |-> FALSE,
                        loading |-> TRUE, seq |-> 0, timer |-> NoChoice]
         IN /\ view = Viewing!Reloading(opened)
            /\ loads = {Viewing!CallFor(opened, choice)}
            /\ refreshing = IF kind = "tab" THEN Viewing!TreeIdsOf(choice) ELSE {}
  BY DEF Viewing!ViewsInit
<1>2. PICK choice \in Viewing!ChoicesOf(kind) :
         LET opened == [kind |-> kind, choice |-> choice, tree |-> {choice}, data |-> NoData, error |-> FALSE,
                        loading |-> TRUE, seq |-> 0, timer |-> NoChoice]
         IN /\ view = Viewing!Reloading(opened)
            /\ loads = {Viewing!CallFor(opened, choice)}
            /\ refreshing = IF kind = "tab" THEN Viewing!TreeIdsOf(choice) ELSE {}
  BY <1>1
<1>3. /\ DOMAIN view = ViewFields /\ view.seq = 1 /\ view.kind = kind /\ view.choice = choice /\ view.tree = {choice}
      /\ view.timer = NoChoice
  BY <1>2 DEF Viewing!Reloading, ViewFields
<1>4. PICK c : c = [n |-> 1, choice |-> choice, state |-> "asked", value |-> NoData]
  OBVIOUS
<1>5. loads = {c} /\ CallIs(c) /\ c.n = 1 /\ c.choice = choice /\ c.state = "asked"
  BY <1>2, <1>4 DEF Viewing!CallFor, CallIs, CallFields
<1>6. /\ DOMAIN bb = {"threads", "spent"} /\ bb.threads \subseteq Threads /\ DOMAIN bb.spent = Threads
      /\ DOMAIN server = {"tokens", "read", "prices", "backfill"} /\ DOMAIN server.tokens = Threads
      /\ queue = <<>>
  BY DEF Viewing!ViewsInit
<1>7. kind \in {"tab", "chip", "page", "settings"}
  BY DEF Viewing!ViewsAssumption
<1>8. refreshing \subseteq Threads
  BY <1>2, <1>6 DEF Viewing!TreeIdsOf
<1>9. choice \in CASE kind \in {"tab", "chip"} -> bb.threads [] kind = "page" -> {7, 30} [] kind = "settings" -> {0}
  BY <1>7 DEF Viewing!ChoicesOf
<1>10. ViewTypes
  BY <1>3, <1>5, <1>6, <1>7, <1>8, <1>9 DEF ViewTypes
<1>. QED  BY <1>3, <1>5, <1>10 DEF ViewsInv, TabStays, CallsNumbered, NewestIsFresh

\* Once signals, timers, loads and buttons are done with, a view that could load shows what the server has of
\* what is chosen in it, whatever came between its calls and their answers (common.tsx, useLive).  A tab stays with its thread.
THEOREM ViewsShowTheServers ==
  ASSUME Viewing!ViewsAssumption, "tab" \notin Switches
  PROVE  Viewing!ViewsSpec => []Viewing!ViewsCatchUp
<1>1. Viewing!ViewsInit => ViewsInv
  BY InitViews
<1>2. ASSUME ViewsInv, [Viewing!ViewsNext]_(Viewing!viewVars)  PROVE ViewsInv'
  <2>1. CASE UNCHANGED Viewing!viewVars
    <3>1. ViewTypes' /\ TabStays' /\ CallsNumbered'
      BY <1>2, <2>1 DEF Viewing!viewVars, ViewsInv, ViewTypes, TabStays, CallsNumbered
    <3>2. CoveredNow' = CoveredNow
      BY <2>1, SameCovered DEF Viewing!viewVars
    <3>3. Now' = Now /\ LoadToCome' = LoadToCome
      BY <2>1, <3>2, SameAnswer DEF Viewing!viewVars, LoadToCome, ChangeTold, Tells
    <3>. QED  BY <1>2, <2>1, <3>1, <3>3, AsideViews DEF Viewing!viewVars
  <2>2. CASE Viewing!Refresh \/ Viewing!CatchUp
    <3>1. PICK t \in refreshing \cup bb.threads : server' = Viewing!CaughtUp(server, t) /\ queue' = Viewing!Told(queue, server, t)
      BY <2>2 DEF Viewing!Refresh, Viewing!CatchUp
    <3>2. t \in Threads
      BY <1>2 DEF ViewsInv, ViewTypes
    <3>3. refreshing' \subseteq refreshing /\ UNCHANGED <<bb, view, loads, acting>>
      BY <2>2 DEF Viewing!Refresh, Viewing!CatchUp
    <3>. QED  BY <1>2, <3>1, <3>2, <3>3, CaughtUpFollows
  <2>. QED  BY <1>2, <2>1, <2>2, ChooseFollows, HearFollows, TimerFollows, LandFollows, ServeFollows, ButtonFollows,
               ActEndsFollows, SpendFollows, CreatedFollows, PricesFollow, BackfillFollows DEF Viewing!ViewsNext
<1>3. ViewsInv => Viewing!ViewsCatchUp
  <2>. SUFFICES ASSUME ViewsInv, Viewing!AtRest, ~view.error, view.data.choice = view.choice  PROVE view.data = Now
    BY DEF Viewing!ViewsCatchUp, Now
  <2>1. ~LoadToCome
    BY DEF Viewing!AtRest, LoadToCome, ChangeTold
  <2>2. IsFresh(view.data)
    BY DEF Viewing!AtRest, ViewsInv, NewestIsFresh
  <2>. QED  BY <2>1, <2>2 DEF IsFresh
<1>. QED  BY <1>1, <1>2, <1>3, PTL DEF Viewing!ViewsSpec
=============================================================================
