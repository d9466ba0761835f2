--------------------------- MODULE EndpointCards ---------------------------
(***************************************************************************)
(* The Endpoints section of the OpenAI-inference plugin's page: a card per *)
(* Endpoint and one for a new one (features/endpoints-settings).  A card   *)
(* holds what is typed, apart from the list as saved; its calls are under  *)
(* way while other cards are typed in, and their answers, which are whole  *)
(* lists, come in any order.                                               *)
(*                                                                         *)
(* The server makes each call in one step (Endpoints has its two writes).  *)
(* An Endpoint's model stands with its URL, and a variable with its kind.  *)
(***************************************************************************)
EXTENDS Naturals, FiniteSets

CONSTANTS
  Ids,          \* the ids typed
  Urls,         \* the URLs typed
  Blank,        \* no id or no URL is typed
  NoEndpoint,   \* no Endpoint has the id
  New,          \* the card of the new Endpoint
  Starts,       \* the lists to begin with
  MaxTyped,     \* bound: how often a card's fields change
  MaxCalls,     \* bound: Saves and Removes
  MaxElsewhere, \* bound: changes by the command line
  MaxFailures   \* bound: calls that fail

KeyKinds == {"none", "variable", "literal"}
AnyEndpoint == [url : Urls, key : [kind : KeyKinds, set : BOOLEAN]]
AnyForm == [id : Ids \cup {Blank}, url : Urls \cup {Blank}, kind : KeyKinds, literal : BOOLEAN, replacing : BOOLEAN]
AnyCard == [version : Nat, since : Nat, form : AnyForm, failed : BOOLEAN, busy : BOOLEAN, removing : BOOLEAN]

CardsAssumption ==
  /\ Blank \notin Ids \cup Urls /\ New \notin Ids
  /\ Starts \subseteq [Ids -> AnyEndpoint \cup {NoEndpoint}]
  /\ NoEndpoint \notin AnyEndpoint \cup AnyCard
  /\ {MaxTyped, MaxCalls, MaxElsewhere, MaxFailures} \subseteq Nat

VARIABLES
  list,      \* the Endpoints as the server has them
  page,      \* the page: where its first read is, the list it draws, the version of each id's card
  cards,     \* the cards drawn, by id; NoEndpoint where none is
  calls,     \* the calls under way
  done       \* how much was typed, called, changed elsewhere and failed

cardVars == <<list, page, cards, calls, done>>

Cards == Ids \cup {New}

-----------------------------------------------------------------------------
(***************************************************************************)
(* What a card decides (model.ts, rules.ts).                               *)
(***************************************************************************)
BlankForm == [id |-> Blank, url |-> Blank, kind |-> "none", literal |-> FALSE, replacing |-> FALSE]
FormOf(id, e) == [id |-> id, url |-> e.url, kind |-> e.key.kind, literal |-> FALSE, replacing |-> FALSE]
HoldsLiteralKey(e) == e # NoEndpoint /\ e.key = [kind |-> "literal", set |-> TRUE]

\* Replace is offered in the place of the field.
ShowsKeySet(form, saved) == form.kind = "literal" /\ HoldsLiteralKey(saved) /\ ~form.replacing
IsEdited(id, form, saved) ==
  IF saved = NoEndpoint THEN TRUE
  ELSE \/ form.url # saved.url \/ form.kind # saved.key.kind
       \/ form.kind = "literal" /\ (form.literal \/ form.replacing)

Edits(id, form, saved) ==
  {[form EXCEPT !.url = u] : u \in Urls} \cup {[form EXCEPT !.kind = k] : k \in KeyKinds}
  \cup (IF id = New THEN {[form EXCEPT !.id = i] : i \in Ids} ELSE {})
  \cup (IF ShowsKeySet(form, saved) THEN {[form EXCEPT !.replacing = TRUE, !.literal = FALSE]} ELSE {})
  \cup (IF form.kind = "literal" /\ ~ShowsKeySet(form, saved)
        THEN {[form EXCEPT !.literal = ~@]} ELSE {})

\* What the server does with a draft: the fields it refuses, or the list after.
Planned(draft, create) ==
  LET e == IF draft.id = Blank THEN NoEndpoint ELSE list[draft.id]
      held == HoldsLiteralKey(e)
      key == [kind |-> draft.kind,
              set |-> draft.kind = "literal" /\ (draft.literal \/ (held /\ e.url = draft.url))]
      refused == \/ draft.id = Blank \/ draft.url = Blank \/ create # (e = NoEndpoint)
                 \/ draft.kind = "literal" /\ ~draft.literal /\ ~held
  IN IF refused THEN [ok |-> FALSE, list |-> list]
     ELSE [ok |-> TRUE, list |-> [list EXCEPT ![draft.id] = [url |-> draft.url, key |-> key]]]
Removed(id) ==
  IF list[id] = NoEndpoint THEN [ok |-> FALSE, list |-> list]
  ELSE [ok |-> TRUE, list |-> [list EXCEPT ![id] = NoEndpoint]]

-----------------------------------------------------------------------------
(***************************************************************************)
(* The page and its cards.                                                 *)
(***************************************************************************)
\* One that goes and comes back is another one, to the calls made before.
Card(form, version) ==
  [version |-> version, since |-> done.calls, form |-> form, failed |-> FALSE, busy |-> FALSE, removing |-> FALSE]
Saved(id) == IF id = New THEN NoEndpoint ELSE page.list[id]

\* The cards after a list is drawn: a card with the same id and version stays as it is.
Drawn(next, versions, was) ==
  [id \in Cards |->
     IF id = New THEN was[New]
     ELSE IF next[id] = NoEndpoint THEN NoEndpoint
     ELSE IF was[id] # NoEndpoint /\ was[id].version = versions[id] THEN was[id]
     ELSE Card(FormOf(id, next[id]), versions[id])]

CardsInit ==
  /\ list \in Starts
  /\ page = [status |-> "loading", list |-> [i \in Ids |-> NoEndpoint], versions |-> [i \in Ids |-> 0]]
  /\ cards = [id \in Cards |-> NoEndpoint]
  /\ calls = {}
  /\ done = [typed |-> 0, calls |-> 0, elsewhere |-> 0, failures |-> 0]

Load ==
  /\ page.status = "loading"
  /\ page' = [page EXCEPT !.status = "ready", !.list = list]
  /\ cards' = Drawn(list, page.versions, cards)
  /\ UNCHANGED <<list, calls, done>>
LoadFails ==
  /\ page.status = "loading" /\ done.failures < MaxFailures
  /\ page' = [page EXCEPT !.status = "failed"]
  /\ done' = [done EXCEPT !.failures = @ + 1]
  /\ UNCHANGED <<list, cards, calls>>

Shown(id) == cards[id] # NoEndpoint
Add ==
  /\ page.status = "ready" /\ ~Shown(New)
  /\ cards' = [cards EXCEPT ![New] = Card(BlankForm, 0)]
  /\ UNCHANGED <<list, page, calls, done>>
Type(id) ==
  /\ Shown(id) /\ done.typed < MaxTyped
  /\ \E form \in Edits(id, cards[id].form, Saved(id)) \ {cards[id].form} :
       cards' = [cards EXCEPT ![id].form = form]
  /\ done' = [done EXCEPT !.typed = @ + 1]
  /\ UNCHANGED <<list, page, calls>>
\* Cancel puts the card back as saved, or discards the new one.
Cancel(id) ==
  /\ Shown(id) /\ ~cards[id].busy /\ ~cards[id].removing
  /\ IsEdited(id, cards[id].form, Saved(id))
  /\ cards' = [cards EXCEPT ![id] = IF id = New THEN NoEndpoint
                                    ELSE [@ EXCEPT !.form = FormOf(id, Saved(id)), !.failed = FALSE]]
  /\ UNCHANGED <<list, page, calls, done>>
AskRemove(id) ==
  /\ Shown(id) /\ id # New /\ ~cards[id].removing
  /\ cards' = [cards EXCEPT ![id].removing = TRUE]
  /\ UNCHANGED <<list, page, calls, done>>
Keep(id) ==
  /\ Shown(id) /\ cards[id].removing
  /\ cards' = [cards EXCEPT ![id].removing = FALSE]
  /\ UNCHANGED <<list, page, calls, done>>

\* A card has one call at a time.
Run(id, kind) ==
  /\ Shown(id) /\ ~cards[id].busy /\ done.calls < MaxCalls
  /\ cards' = [cards EXCEPT ![id].busy = TRUE, ![id].failed = FALSE]
  /\ calls' = calls \cup {[card |-> id, n |-> done.calls + 1, kind |-> kind,
                           draft |-> cards[id].form, state |-> "sent", ok |-> FALSE, list |-> page.list]}
  /\ done' = [done EXCEPT !.calls = @ + 1]
  /\ UNCHANGED <<list, page>>
Save(id) ==
  /\ Shown(id) /\ ~cards[id].removing /\ IsEdited(id, cards[id].form, Saved(id))
  /\ Run(id, "save")
Remove(id) == Shown(id) /\ cards[id].removing /\ Run(id, "remove")

\* The answer: a list is drawn with the card of this call anew; anything else leaves what is typed.
ClosedByAny(call) == TRUE    \* mutant: any card's answer closes the new card
Closed(call) == call.card = New
Answered ==
  /\ \E call \in calls :
       /\ call.state \in {"answered", "failed"}
       /\ calls' = calls \ {call}
       /\ LET id == call.card
              mine == Shown(id) /\ call.n > cards[id].since
              versions == IF id = New THEN page.versions ELSE [page.versions EXCEPT ![id] = @ + 1]
              was == IF Closed(call) THEN [cards EXCEPT ![New] = NoEndpoint] ELSE cards
          IN IF call.state = "answered" /\ call.ok
             THEN /\ page' = [page EXCEPT !.list = call.list, !.versions = versions]
                  /\ cards' = Drawn(call.list, versions, was)
             ELSE /\ cards' = IF mine THEN [cards EXCEPT ![id].busy = FALSE, ![id].failed = TRUE] ELSE cards
                  /\ UNCHANGED page
  /\ UNCHANGED <<list, done>>

-----------------------------------------------------------------------------
(***************************************************************************)
(* The server and the command line.                                        *)
(***************************************************************************)
Serve ==
  \E call \in calls :
    /\ call.state = "sent"
    /\ LET result == IF call.kind = "save" THEN Planned(call.draft, call.card = New) ELSE Removed(call.card)
       IN /\ list' = result.list
          /\ calls' = (calls \ {call}) \cup
               {[call EXCEPT !.state = "answered", !.ok = result.ok, !.list = result.list]}
    /\ UNCHANGED <<page, cards, done>>
Fail ==
  /\ done.failures < MaxFailures
  /\ \E call \in calls :
       /\ call.state = "sent"
       /\ calls' = (calls \ {call}) \cup {[call EXCEPT !.state = "failed"]}
  /\ done' = [done EXCEPT !.failures = @ + 1]
  /\ UNCHANGED <<list, page, cards>>
\* The command neither types nor clears a literal key.
Elsewhere ==
  /\ done.elsewhere < MaxElsewhere
  /\ \E id \in Ids :
       \/ list[id] # NoEndpoint /\ list' = [list EXCEPT ![id] = NoEndpoint]
       \/ \E u \in Urls :
            /\ list[id] = NoEndpoint
            /\ list' = [list EXCEPT ![id] = [url |-> u, key |-> [kind |-> "none", set |-> FALSE]]]
  /\ done' = [done EXCEPT !.elsewhere = @ + 1]
  /\ UNCHANGED <<page, cards, calls>>

CardsNext ==
  \/ Load \/ LoadFails \/ Add \/ Answered \/ Serve \/ Fail \/ Elsewhere
  \/ \E id \in Cards : Type(id) \/ Cancel(id) \/ AskRemove(id) \/ Keep(id) \/ Save(id) \/ Remove(id)

CardsSpec == CardsInit /\ [][CardsNext]_cardVars

-----------------------------------------------------------------------------
(***************************************************************************)
(* What must hold.                                                         *)
(***************************************************************************)
\* A step that drops what a card holds: the form is another one, or the card is gone.
Dropped(id) == Shown(id) /\ (cards'[id] = NoEndpoint \/ cards'[id].form # cards[id].form)
OwnAnswer(id) == \E call \in calls \ calls' : call.card = id /\ call.ok

\* "Only the new card's own Save closes it" (EndpointsSettings.tsx:46), "The edits stay, so the same
\* Save can be tried again" (EndpointCard.tsx:58): what is typed in a card goes by typing, by its
\* Cancel, by the answer to a call of its Endpoint's card, or because its Endpoint is no longer in the list.
KeepsWhatIsTyped ==
  \A id \in Cards :
    Dropped(id) =>
      \/ done'.typed > done.typed \/ Cancel(id)
      \/ OwnAnswer(id)
      \/ id # New /\ page'.list[id] = NoEndpoint

=============================================================================
