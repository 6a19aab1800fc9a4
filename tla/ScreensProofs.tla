---------------------------- MODULE ScreensProofs ----------------------------
(***************************************************************************)
(* Proofs about the screens of the browser: the vault screen of ItemPanel, *)
(* for any number of entries, names, loads and calls in flight; and the    *)
(* screens of AccountScreens, for any accounts and any number of requests. *)
(***************************************************************************)
EXTENDS ItemPanel, AccountScreens, TLAPS

-----------------------------------------------------------------------------
(* The vault screen: what its calls and loads know.                        *)

CallRecord == [stage : {"idle", "sent", "served"}, kind : {"none", "add", "update", "delete"},
               item : Item \union {New}, name : Name \union {NoName}, live : BOOLEAN]
LoadRecord == [stage : {"idle", "sent", "read"}, snap : Entries, live : BOOLEAN]

PanelTyped ==
  /\ PanelTypeOK
  /\ call \in [Op -> CallRecord] /\ fetch \in [Fetch -> LoadRecord]

\* Ids on screen, in memory or on their way were given out by the server.
IdsBorn ==
  /\ selected \in Item => selected \in born
  /\ \A i \in Item : (Listed(i) \/ rows[i] # Gone) => i \in born
  /\ \A f \in Fetch, i \in Item : fetch[f].snap[i] # Gone => i \in born

\* A save has a name, a call of an entry names one the server has given out, and
\* the call of the panel on screen is about what that panel shows.
CallSound(c) ==
  c.stage # "idle" =>
    /\ c.kind # "none"
    /\ c.kind # "delete" => c.name \in Name
    /\ (c.kind # "add" \/ c.stage = "served") => c.item \in born
    /\ c.kind = "add" /\ c.stage = "sent" => c.item = New
    /\ c.live => IF c.kind = "add" THEN selected = New ELSE c.item = selected
CallsSound == \A o \in Op : CallSound(call[o])

\* While the list loads no entry is on screen, and one load at most is waited for.
LoadsSound ==
  /\ ~inside => selected = Hint
  /\ loading # "ready" => selected \notin Item
  /\ \A f \in Fetch : fetch[f].live => fetch[f].stage # "idle" /\ loading = "loading" /\ inside
  /\ \A f, g \in Fetch : fetch[f].live /\ fetch[g].live => f = g

Served(o, i) == call[o].stage = "served" /\ call[o].item = i

\* As long as every name was checked against a whole list: no call overlaps a
\* load or a lock, and two calls overlap only as a save and a delete of one entry.
Apart ==
  /\ (~inside \/ loading # "ready") => \A o \in Op : ~InFlight(o)
  /\ \A f \in Fetch : fetch[f].stage # "idle" => fetch[f].live
  /\ \A f \in Fetch : fetch[f].stage = "read" => fetch[f].snap = rows
  /\ \A o, p \in Op : o # p /\ InFlight(o) /\ InFlight(p) =>
       /\ call[o].item = call[p].item
       /\ call[o].kind # "add" /\ call[p].kind # "add" /\ call[o].kind # call[p].kind

\* And then the list differs from the rows only by the calls that were served and
\* not yet answered.
ListSynced ==
  inside /\ loading = "ready" =>
    \A i \in Item : list[i] = rows[i] \/ \E o \in Op : Served(o, i)

\* What a call in flight has done to its row, and the name it checked for.
Effect(o) ==
  InFlight(o) =>
    /\ call[o].kind # "delete" => \A j \in Item : j # call[o].item => list[j] # call[o].name
    /\ call[o].kind = "add" /\ call[o].stage = "served" => rows[call[o].item] = call[o].name
    /\ call[o].kind = "delete" /\ call[o].stage = "served" => rows[call[o].item] = Gone
    /\ call[o].kind = "update" => Listed(call[o].item) \/ rows[call[o].item] = Gone
    /\ call[o].kind = "update" /\ call[o].stage = "served" /\ rows[call[o].item] # call[o].name =>
         /\ rows[call[o].item] = Gone
         /\ \/ ~Listed(call[o].item)
            \/ \E p \in Op : Served(p, call[o].item) /\ call[p].kind = "delete"
Effects == \A o \in Op : Effect(o)

Clean == ~stale /\ Apart /\ ListSynced /\ Effects

\* What holds however loads, locks and calls overlap.
Standing == PanelTyped /\ IdsBorn /\ CallsSound /\ LoadsSound /\ PanelShowsListed

PanelInv == Standing /\ (~unseen => NamesDistinct /\ Clean)

-----------------------------------------------------------------------------
(* Steps that only move the person about.                                  *)

Form == [name : Name \union {NoName}, edited : BOOLEAN]

ScreenOnly ==
  /\ inside /\ inside' = inside /\ unlocks' = unlocks /\ begunCalls' = begunCalls
  /\ UNCHANGED <<list, loading, fetch, rows, born, unseen, stale>>
  /\ view' \in View /\ form' \in Form /\ confirm' \in BOOLEAN
  /\ \/ selected' = selected /\ call' = call
     \/ selected' \in {Hint, New} /\ call' = Orphaned(call)

LEMMA BaseTyped ==
  ASSUME PanelTyped, NEW s
  PROVE  Base(s) \in Name \union {NoName} /\ Untouched(s) \in Form
<1>1. s \in Item => list[s] \in Name \union {Gone}
  BY DEF PanelTyped, PanelTypeOK, Entries
<1>2. Base(s) \in Name \union {NoName}
  BY <1>1 DEF Base, Listed
<1> QED
  BY <1>2 DEF Untouched, Form

LEMMA ScreenSteps ==
  ASSUME PanelTyped,
         \/ \E v \in View : Navigate(v)
         \/ AddItem \/ Close \/ Escape \/ EditField \/ UseForged \/ AskDelete
         \/ \E n \in Name \union {NoName} : TypeName(n)
  PROVE  ScreenOnly
<1> USE DEF screen, table
<1>1. /\ form \in Form /\ view \in View /\ confirm \in BOOLEAN /\ "vault" \in View
      /\ \A n \in Name \union {NoName} : [form EXCEPT !.name = n] \in Form
      /\ [form EXCEPT !.edited = TRUE] \in Form
      /\ [name |-> NoName, edited |-> TRUE] \in Form
  BY ViewAssumption DEF PanelTyped, PanelTypeOK, Form
<1>2. CASE \E v \in View : Navigate(v)
  BY <1>1, <1>2 DEF Navigate, ScreenOnly
<1>3. CASE AddItem
  BY <1>1, <1>3, BaseTyped DEF AddItem, Mount, ScreenOnly
<1>4. CASE Close
  BY <1>1, <1>4, BaseTyped DEF Close, Mount, ScreenOnly
<1>5. CASE Escape
  <2>1. CASE confirm
    BY <1>1, <1>5, <2>1 DEF Escape, ScreenOnly
  <2>2. CASE ~confirm
    BY <1>1, <1>5, <2>2, BaseTyped DEF Escape, Mount, ScreenOnly
  <2> QED
    BY <2>1, <2>2
<1>6. CASE EditField
  BY <1>1, <1>6 DEF EditField, ScreenOnly
<1>7. CASE UseForged
  BY <1>1, <1>7 DEF UseForged, ScreenOnly
<1>8. CASE AskDelete
  BY <1>1, <1>8 DEF AskDelete, ScreenOnly
<1>9. CASE \E n \in Name \union {NoName} : TypeName(n)
  BY <1>1, <1>9 DEF TypeName, ScreenOnly
<1> QED
  BY <1>2, <1>3, <1>4, <1>5, <1>6, <1>7, <1>8, <1>9

\* A panel that goes leaves its calls in flight as they are, but for whom they tell.
LEMMA OrphanedTyped ==
  ASSUME NEW cs \in [Op -> CallRecord]
  PROVE  /\ Orphaned(cs) \in [Op -> CallRecord]
         /\ \A o \in Op : /\ Orphaned(cs)[o].stage = cs[o].stage /\ Orphaned(cs)[o].kind = cs[o].kind
                          /\ Orphaned(cs)[o].item = cs[o].item /\ Orphaned(cs)[o].name = cs[o].name
                          /\ Orphaned(cs)[o].live = FALSE
BY DEF Orphaned, CallRecord

-----------------------------------------------------------------------------
(* Types.                                                                  *)

\* PanelTypeOK follows from the types of the variables one by one.
LEMMA PanelTypedIntro ==
  ASSUME inside \in BOOLEAN, unlocks \in 0 .. MaxUnlocks, view \in View,
         selected \in Item \union {Hint, New}, form \in Form, confirm \in BOOLEAN,
         loading \in {"ready", "loading", "failed"}, list \in Entries, rows \in Entries,
         born \subseteq Item, begunCalls \in 0 .. MaxPanelCalls,
         call \in [Op -> CallRecord], fetch \in [Fetch -> LoadRecord],
         \A o \in Op : call[o].kind \in {"update", "delete"} => call[o].item \in Item,
         unseen \in BOOLEAN, stale \in BOOLEAN
  PROVE  PanelTyped
<1>1. \A f \in Fetch : /\ fetch[f].stage \in {"idle", "sent", "read"}
                       /\ fetch[f].snap \in Entries /\ fetch[f].live \in BOOLEAN
  BY DEF LoadRecord
<1>2. \A o \in Op : /\ call[o].stage \in {"idle", "sent", "served"}
                    /\ call[o].kind \in {"none", "add", "update", "delete"}
                    /\ call[o].item \in Item \union {New}
                    /\ call[o].name \in Name \union {NoName} /\ call[o].live \in BOOLEAN
  BY DEF CallRecord
<1> QED
  BY <1>1, <1>2 DEF PanelTyped, PanelTypeOK, Form

LEMMA PanelInitTyped == PanelInit => PanelTyped
<1> SUFFICES ASSUME PanelInit PROVE PanelTyped
  OBVIOUS
<1>1. Quiet \in CallRecord /\ NoFetch \in LoadRecord /\ NoEntries \in Entries
  BY DEF Quiet, NoFetch, CallRecord, LoadRecord, NoEntries, Entries
<1>2. /\ call \in [Op -> CallRecord] /\ fetch \in [Fetch -> LoadRecord]
      /\ \A o \in Op : call[o] = Quiet
      /\ \A f \in Fetch : fetch[f] = NoFetch
  BY <1>1 DEF PanelInit
<1>3. list \in Entries /\ rows \in Entries /\ born \subseteq Item
  BY <1>1 DEF PanelInit
<1>4. unlocks \in 0 .. MaxUnlocks /\ begunCalls \in 0 .. MaxPanelCalls
  BY PanelBoundAssumption DEF PanelInit
<1>5. form \in Form /\ selected \in Item \union {Hint, New} /\ view \in View
  BY ViewAssumption DEF PanelInit, Form
<1>6. \A o \in Op : call[o].kind = "none"
  BY <1>2 DEF Quiet
<1>7. /\ inside \in BOOLEAN /\ confirm \in BOOLEAN /\ unseen \in BOOLEAN /\ stale \in BOOLEAN
      /\ loading \in {"ready", "loading", "failed"}
  BY DEF PanelInit
<1> QED
  BY <1>2, <1>3, <1>4, <1>5, <1>6, <1>7, PanelTypedIntro, Zenon

LEMMA ScreenTyped == PanelTyped /\ ScreenOnly => PanelTyped'
<1> SUFFICES ASSUME PanelTyped, ScreenOnly PROVE PanelTyped'
  OBVIOUS
<1>1. /\ call' \in [Op -> CallRecord]
      /\ \A o \in Op : call'[o].kind = call[o].kind /\ call'[o].item = call[o].item
  <2>1. CASE call' = call
    BY <2>1 DEF PanelTyped
  <2>2. CASE call' = Orphaned(call)
    BY <2>2, OrphanedTyped DEF PanelTyped
  <2> QED
    BY <2>1, <2>2 DEF ScreenOnly
<1>2. selected' \in Item \union {Hint, New}
  BY DEF ScreenOnly, PanelTyped, PanelTypeOK
<1>3. fetch' \in [Fetch -> LoadRecord]
  BY DEF ScreenOnly, PanelTyped
<1> QED
  BY <1>1, <1>2, <1>3 DEF ScreenOnly, PanelTyped, PanelTypeOK, Form, CallRecord

LEMMA StartLoadTyped ==
  ASSUME PanelTyped, NEW f \in Fetch, StartLoad(f, fetch)
  PROVE  /\ fetch' \in [Fetch -> LoadRecord] /\ loading' = "loading"
         /\ fetch[f].stage = "idle"
         /\ fetch'[f] = [stage |-> "sent", snap |-> NoEntries, live |-> TRUE]
         /\ \A g \in Fetch : g # f => fetch'[g] = fetch[g]
<1>1. [stage |-> "sent", snap |-> NoEntries, live |-> TRUE] \in LoadRecord
  BY DEF LoadRecord, NoEntries, Entries
<1> QED
  BY <1>1 DEF StartLoad, PanelTyped

\* A load that is over leaves the others as they are.
LEMMA LoadOver ==
  ASSUME PanelTyped, NEW f \in Fetch, fetch' = [fetch EXCEPT ![f] = NoFetch]
  PROVE  /\ fetch' \in [Fetch -> LoadRecord] /\ fetch'[f] = NoFetch
         /\ \A g \in Fetch : g # f => fetch'[g] = fetch[g]
<1>1. NoFetch \in LoadRecord
  BY DEF NoFetch, LoadRecord, NoEntries, Entries
<1> QED
  BY <1>1 DEF PanelTyped

\* A call that begins.
LEMMA BeginCallTyped ==
  ASSUME PanelTyped, NEW o \in Op, NEW k \in {"add", "update", "delete"}, BeginCall(o, k),
         selected # Hint, k # "add" => selected \in Item
  PROVE  /\ PanelTyped'
         /\ call[o].stage = "idle"
         /\ call'[o] = [stage |-> "sent", kind |-> k, item |-> selected, name |-> form.name,
                        live |-> TRUE]
         /\ \A p \in Op : p # o => call'[p] = call[p]
<1>1. selected \in Item \union {New} /\ form.name \in Name \union {NoName}
  BY DEF PanelTyped, PanelTypeOK
<1>2. [stage |-> "sent", kind |-> k, item |-> selected, name |-> form.name, live |-> TRUE]
        \in CallRecord
  BY <1>1 DEF CallRecord
<1>3. /\ call' \in [Op -> CallRecord]
      /\ call'[o] = [stage |-> "sent", kind |-> k, item |-> selected, name |-> form.name,
                     live |-> TRUE]
      /\ \A p \in Op : p # o => call'[p] = call[p]
  BY <1>2 DEF BeginCall, PanelTyped
<1>4. begunCalls' \in 0 .. MaxPanelCalls
  BY PanelBoundAssumption DEF BeginCall, PanelTyped, PanelTypeOK
<1>5. \A p \in Op : call'[p].kind \in {"update", "delete"} => call'[p].item \in Item
  BY <1>3 DEF PanelTyped, PanelTypeOK
<1>6. UNCHANGED <<inside, unlocks, view, selected, form, confirm, list, loading, fetch, rows, born,
                  stale>>
      /\ unseen' \in BOOLEAN
  BY DEF BeginCall, screen, table, PanelTyped, PanelTypeOK
<1>7. PanelTyped'
  BY <1>3, <1>4, <1>5, <1>6 DEF PanelTyped, PanelTypeOK, CallRecord
<1> QED
  BY <1>3, <1>7 DEF BeginCall, InFlight

LEMMA SaveFacts ==
  ASSUME PanelTyped, NEW o \in Op, Save(o)
  PROVE  /\ inside /\ ~Busy /\ ~NameTaken /\ form.name \in Name
         /\ \E k \in {"add", "update"} : /\ BeginCall(o, k) /\ selected # Hint
                                         /\ k = (IF selected = New THEN "add" ELSE "update")
                                         /\ k # "add" => selected \in Item
BY DEF Save, PanelTyped, PanelTypeOK

LEMMA RemoveFacts ==
  ASSUME PanelTyped, NEW o \in Op, Remove(o)
  PROVE  /\ inside /\ selected \in Item /\ selected # Hint /\ BeginCall(o, "delete")
         /\ ~\E p \in Op : InFlight(p) /\ call[p].live /\ call[p].kind = "delete"
BY SelectionAssumption DEF Remove, Deletable

\* A call that is served: what it does to its row.
LEMMA ServeFacts ==
  ASSUME PanelTyped, CallsSound, NEW o \in Op, ServeCall(o)
  PROVE  /\ PanelTyped'
         /\ call[o].stage = "sent" /\ call'[o].stage = "served"
         /\ call'[o].kind = call[o].kind /\ call'[o].name = call[o].name
         /\ call'[o].live = call[o].live /\ call'[o].item \in born'
         /\ \A p \in Op : p # o => call'[p] = call[p]
         /\ \A i \in Item : i # call'[o].item => rows'[i] = rows[i]
         /\ rows'[call'[o].item] = IF call[o].kind = "delete" THEN Gone ELSE call[o].name
         /\ call[o].kind = "add" => /\ call'[o].item \notin born
                                    /\ born' = born \union {call'[o].item}
         /\ call[o].kind # "add" => /\ call'[o].item = call[o].item /\ born' = born
                                    /\ rows[call[o].item] # Gone
         /\ UNCHANGED <<begunCalls, inside, unlocks, view, selected, form, confirm, list, loading,
                        fetch, unseen, stale>>
<1>1. /\ call[o].stage = "sent" /\ call[o].kind # "none"
      /\ call[o].kind # "delete" => call[o].name \in Name
      /\ call[o].kind # "add" => call[o].item \in born
  BY DEF ServeCall, CallsSound, CallSound
<1>2. /\ call \in [Op -> CallRecord] /\ rows \in [Item -> Name \union {Gone}] /\ born \subseteq Item
      /\ call[o].kind \in {"add", "update", "delete"}
      /\ \A p \in Op : call[p].kind \in {"update", "delete"} => call[p].item \in Item
  BY <1>1 DEF PanelTyped, PanelTypeOK, Entries
<1>3. UNCHANGED <<begunCalls, inside, unlocks, view, selected, form, confirm, list, loading,
                  fetch, unseen, stale>>
  BY DEF ServeCall, screen
<1>4. CASE call[o].kind = "add"
  <2>1. PICK i \in Item \ born : /\ rows' = [rows EXCEPT ![i] = call[o].name]
                                 /\ born' = born \union {i}
                                 /\ call' = [call EXCEPT ![o].stage = "served", ![o].item = i]
    BY <1>4 DEF ServeCall
  <2>2. [call[o] EXCEPT !.stage = "served", !.item = i] \in CallRecord
    BY <1>2 DEF CallRecord
  <2>3. call' = [call EXCEPT ![o] = [call[o] EXCEPT !.stage = "served", !.item = i]]
    BY <2>1, <1>2
  <2>4. /\ call' \in [Op -> CallRecord] /\ \A p \in Op : p # o => call'[p] = call[p]
        /\ call'[o] = [call[o] EXCEPT !.stage = "served", !.item = i]
    BY <2>2, <2>3, <1>2
  <2>5. /\ call'[o].stage = "served" /\ call'[o].item = i /\ call'[o].kind = call[o].kind
        /\ call'[o].name = call[o].name /\ call'[o].live = call[o].live
    BY <2>4, <1>2 DEF CallRecord
  <2>6. rows' \in Entries /\ born' \subseteq Item
    BY <2>1, <1>1, <1>2, <1>4 DEF Entries
  <2>7. \A p \in Op : call'[p].kind \in {"update", "delete"} => call'[p].item \in Item
    BY <2>4, <2>5, <1>2
  <2>8. PanelTyped'
    BY <2>4, <2>6, <2>7, <1>3 DEF PanelTyped, PanelTypeOK, CallRecord
  <2> QED
    BY <2>1, <2>4, <2>5, <2>8, <1>1, <1>2, <1>3, <1>4
<1>5. CASE call[o].kind # "add"
  <2>1. /\ rows[call[o].item] # Gone
        /\ rows' = [rows EXCEPT ![call[o].item] =
                      IF call[o].kind = "update" THEN call[o].name ELSE Gone]
        /\ call' = [call EXCEPT ![o].stage = "served"] /\ born' = born
    BY <1>5 DEF ServeCall
  <2>2. [call[o] EXCEPT !.stage = "served"] \in CallRecord
    BY <1>2 DEF CallRecord
  <2>3. call' = [call EXCEPT ![o] = [call[o] EXCEPT !.stage = "served"]]
    BY <2>1, <1>2
  <2>4. /\ call' \in [Op -> CallRecord] /\ \A p \in Op : p # o => call'[p] = call[p]
        /\ call'[o] = [call[o] EXCEPT !.stage = "served"]
    BY <2>2, <2>3, <1>2
  <2>5. /\ call'[o].stage = "served" /\ call'[o].item = call[o].item
        /\ call'[o].kind = call[o].kind
        /\ call'[o].name = call[o].name /\ call'[o].live = call[o].live
    BY <2>4, <1>2 DEF CallRecord
  <2>6. rows' \in Entries
    BY <2>1, <1>1, <1>2, <1>5 DEF Entries
  <2>7. \A p \in Op : call'[p].kind \in {"update", "delete"} => call'[p].item \in Item
    BY <2>4, <2>5, <1>2
  <2>8. PanelTyped'
    BY <2>1, <2>4, <2>6, <2>7, <1>3 DEF PanelTyped, PanelTypeOK, CallRecord
  <2> QED
    BY <2>1, <2>4, <2>5, <2>8, <1>1, <1>2, <1>3, <1>5
<1> QED
  BY <1>4, <1>5

\* A call that is answered: the list follows it, and no panel stays open.
LEMMA AnswerFacts ==
  ASSUME PanelTyped, IdsBorn, CallsSound, NEW o \in Op, CallAnswered(o)
  PROVE  /\ PanelTyped' /\ call[o].stage = "served" /\ selected' = Hint
         /\ call[o].item \in Item /\ call[o].kind \in {"add", "update", "delete"}
         /\ \A i \in Item : i # call[o].item => list'[i] = list[i]
         /\ list'[call[o].item] = IF call[o].kind = "delete" THEN Gone
                                  ELSE IF call[o].kind = "add" \/ Listed(call[o].item)
                                         THEN call[o].name ELSE Gone
         /\ call'[o].stage = "idle" /\ ~call'[o].live
         /\ \A p \in Op : p # o =>
              /\ call'[p].stage = call[p].stage /\ call'[p].kind = call[p].kind
              /\ call'[p].item = call[p].item /\ call'[p].name = call[p].name
              /\ call'[p].live => call[p].live
         /\ selected # Hint => \A p \in Op : ~call'[p].live
         /\ selected = Hint => \A p \in Op : p # o => call'[p] = call[p]
         /\ UNCHANGED <<begunCalls, inside, unlocks, view, loading, fetch, rows, born, unseen, stale>>
<1>1. /\ call[o].stage = "served" /\ call[o].kind # "none" /\ call[o].item \in born
      /\ call[o].kind # "delete" => call[o].name \in Name
  BY DEF CallAnswered, CallsSound, CallSound
<1>2. /\ call \in [Op -> CallRecord] /\ list \in [Item -> Name \union {Gone}] /\ born \subseteq Item
      /\ call[o].kind \in {"add", "update", "delete"}
      /\ \A p \in Op : call[p].kind \in {"update", "delete"} => call[p].item \in Item
  BY <1>1 DEF PanelTyped, PanelTypeOK, Entries
<1>3. UNCHANGED <<begunCalls, inside, unlocks, view, loading, fetch, rows, born, unseen, stale>>
  BY DEF CallAnswered, table
<1>4. /\ list' \in Entries
      /\ \A i \in Item : i # call[o].item => list'[i] = list[i]
      /\ list'[call[o].item] = IF call[o].kind = "delete" THEN Gone
                               ELSE IF call[o].kind = "add" \/ Listed(call[o].item)
                                      THEN call[o].name ELSE Gone
  <2>1. list' = Applied(call[o])
    BY DEF CallAnswered
  <2>2. CASE call[o].kind = "add"
    BY <2>1, <2>2, <1>1, <1>2 DEF Applied, Entries
  <2>3. CASE call[o].kind = "update"
    BY <2>1, <2>3, <1>1, <1>2 DEF Applied, Entries, Listed
  <2>4. CASE call[o].kind = "delete"
    BY <2>1, <2>4, <1>1, <1>2 DEF Applied, Entries
  <2> QED
    BY <2>2, <2>3, <2>4, <1>2
<1> DEFINE cs == [call EXCEPT ![o] = Quiet]
<1>5. Quiet \in CallRecord /\ Quiet.stage = "idle" /\ Quiet.kind = "none" /\ Quiet.live = FALSE
  BY DEF Quiet, CallRecord
<1>6. /\ cs \in [Op -> CallRecord] /\ cs[o] = Quiet /\ \A p \in Op : p # o => cs[p] = call[p]
  BY <1>2, <1>5
<1>7. Done(call[o], cs)
  BY DEF CallAnswered
<1> HIDE DEF cs
<1>8. CASE selected = Hint
  <2>1. call' = cs /\ UNCHANGED <<selected, form, confirm>>
    BY <1>7, <1>8 DEF Done
  <2>2. \A p \in Op : call'[p].kind \in {"update", "delete"} => call'[p].item \in Item
    BY <2>1, <1>2, <1>5, <1>6
  <2>3. PanelTyped'
    BY <2>1, <2>2, <1>3, <1>4, <1>6 DEF PanelTyped, PanelTypeOK, CallRecord
  <2> QED
    BY <2>1, <2>3, <1>1, <1>2, <1>3, <1>4, <1>5, <1>6, <1>8
<1>9. CASE selected # Hint
  <2>1. call' = Orphaned(cs) /\ selected' = Hint /\ form' = Untouched(Hint) /\ confirm' = FALSE
    BY <1>7, <1>9 DEF Done, Mount
  <2>2. call' \in [Op -> CallRecord]
        /\ \A p \in Op : /\ call'[p].stage = cs[p].stage /\ call'[p].kind = cs[p].kind
                         /\ call'[p].item = cs[p].item /\ call'[p].name = cs[p].name
                         /\ call'[p].live = FALSE
    BY <2>1, <1>6, OrphanedTyped
  <2>3. \A p \in Op : call'[p].kind \in {"update", "delete"} => call'[p].item \in Item
    BY <2>2, <1>2, <1>5, <1>6
  <2>4. form' \in Form
    BY <2>1, BaseTyped
  <2>5. PanelTyped'
    <3>1. \A p \in Op : /\ call'[p].stage \in {"idle", "sent", "served"}
                         /\ call'[p].kind \in {"none", "add", "update", "delete"}
                         /\ call'[p].item \in Item \union {New}
                         /\ call'[p].name \in Name \union {NoName} /\ call'[p].live \in BOOLEAN
      BY <2>2 DEF CallRecord
    <3>2. /\ form' \in [name : Name \union {NoName}, edited : BOOLEAN]
          /\ selected' \in Item \union {Hint, New} /\ confirm' \in BOOLEAN
      BY <2>1, <2>4 DEF Form
    <3> QED
      BY <2>2, <2>3, <3>1, <3>2, <1>3, <1>4 DEF PanelTyped, PanelTypeOK
  <2> QED
    BY <2>1, <2>2, <2>5, <1>1, <1>2, <1>3, <1>4, <1>5, <1>6, <1>9
<1> QED
  BY <1>8, <1>9

\* A call that is refused, or whose answer is lost.
LEMMA FailFacts ==
  ASSUME PanelTyped, NEW o \in Op, CallFails(o)
  PROVE  /\ PanelTyped' /\ call[o].stage # "idle"
         /\ call'[o].stage = "idle" /\ ~call'[o].live
         /\ \A p \in Op : p # o => call'[p] = call[p]
         /\ unseen' = (unseen \/ call[o].stage = "served")
         /\ UNCHANGED <<begunCalls, inside, unlocks, view, selected, form, list, loading, fetch,
                        rows, born, stale>>
<1>1. Quiet \in CallRecord /\ Quiet.stage = "idle" /\ Quiet.kind = "none" /\ Quiet.live = FALSE
  BY DEF Quiet, CallRecord
<1>2. /\ call' \in [Op -> CallRecord] /\ call'[o] = Quiet /\ \A p \in Op : p # o => call'[p] = call[p]
  BY <1>1 DEF CallFails, PanelTyped
<1>3. /\ unseen' = (unseen \/ call[o].stage = "served") /\ confirm' \in BOOLEAN
      /\ UNCHANGED <<begunCalls, inside, unlocks, view, selected, form, list, loading, fetch,
                     rows, born, stale>>
  BY DEF CallFails, table, PanelTyped, PanelTypeOK
<1>4. \A p \in Op : call'[p].kind \in {"update", "delete"} => call'[p].item \in Item
  BY <1>1, <1>2 DEF PanelTyped, PanelTypeOK
<1>5. PanelTyped'
  BY <1>2, <1>3, <1>4 DEF PanelTyped, PanelTypeOK, CallRecord
<1> QED
  BY <1>1, <1>2, <1>3, <1>5 DEF CallFails, InFlight

LEMMA LockFacts ==
  ASSUME PanelTyped, LockVault
  PROVE  /\ PanelTyped' /\ inside /\ ~inside' /\ selected' = Hint /\ list' = NoEntries
         /\ \A o \in Op : /\ call'[o].stage = call[o].stage /\ call'[o].kind = call[o].kind
                          /\ call'[o].item = call[o].item /\ call'[o].name = call[o].name
                          /\ ~call'[o].live
         /\ \A f \in Fetch : fetch'[f].stage = fetch[f].stage /\ fetch'[f].snap = fetch[f].snap
                             /\ ~fetch'[f].live
         /\ unseen' = (unseen \/ Fetching \/ \E o \in Op : InFlight(o))
         /\ UNCHANGED <<begunCalls, unlocks, loading, rows, born, stale>>
<1>1. /\ inside /\ inside' = FALSE /\ view' = "vault" /\ list' = NoEntries /\ selected' = Hint
      /\ confirm' = FALSE /\ call' = Orphaned(call)
      /\ form' = [name |-> NoName, edited |-> FALSE]
      /\ fetch' = [f \in Fetch |-> [fetch[f] EXCEPT !.live = FALSE]]
      /\ unseen' = (unseen \/ Fetching \/ \E o \in Op : InFlight(o))
      /\ UNCHANGED <<begunCalls, unlocks, loading, rows, born, stale>>
  BY DEF LockVault, Mount, table
<1>2. /\ call' \in [Op -> CallRecord]
      /\ \A o \in Op : /\ call'[o].stage = call[o].stage /\ call'[o].kind = call[o].kind
                       /\ call'[o].item = call[o].item /\ call'[o].name = call[o].name
                       /\ ~call'[o].live
  BY <1>1, OrphanedTyped DEF PanelTyped
<1>3. /\ fetch' \in [Fetch -> LoadRecord]
      /\ \A f \in Fetch : fetch'[f].stage = fetch[f].stage /\ fetch'[f].snap = fetch[f].snap
                          /\ ~fetch'[f].live
  BY <1>1 DEF PanelTyped, LoadRecord
<1>4. /\ view' \in View /\ list' \in Entries /\ unseen' \in BOOLEAN
      /\ form' \in [name : Name \union {NoName}, edited : BOOLEAN]
  BY <1>1, ViewAssumption DEF NoEntries, Entries, PanelTyped, PanelTypeOK
<1>5. \A f \in Fetch : /\ fetch'[f].stage \in {"idle", "sent", "read"}
                       /\ fetch'[f].snap \in Entries /\ fetch'[f].live \in BOOLEAN
  BY <1>3 DEF LoadRecord
<1>6. \A o \in Op : /\ call'[o].stage \in {"idle", "sent", "served"}
                    /\ call'[o].kind \in {"none", "add", "update", "delete"}
                    /\ call'[o].item \in Item \union {New}
                    /\ call'[o].name \in Name \union {NoName} /\ call'[o].live \in BOOLEAN
  BY <1>2 DEF CallRecord
<1>7. PanelTyped'
  <2>1. \A o \in Op : call'[o].kind \in {"update", "delete"} => call'[o].item \in Item
    BY <1>2 DEF PanelTyped, PanelTypeOK
  <2>2. /\ inside' \in BOOLEAN /\ unlocks' \in 0 .. MaxUnlocks /\ view' \in View
        /\ selected' \in Item \union {Hint, New} /\ confirm' \in BOOLEAN
        /\ loading' \in {"ready", "loading", "failed"} /\ rows' \in Entries /\ born' \subseteq Item
        /\ begunCalls' \in 0 .. MaxPanelCalls /\ stale' \in BOOLEAN
    BY <1>1, <1>4 DEF PanelTyped, PanelTypeOK
  <2> QED
    BY <2>1, <2>2, <1>2, <1>3, <1>4, <1>5, <1>6 DEF PanelTyped, PanelTypeOK
<1> QED
  BY <1>1, <1>2, <1>3, <1>7

LEMMA SelectFacts ==
  ASSUME PanelTyped, NEW i \in Item, Select(i)
  PROVE  /\ PanelTyped' /\ inside /\ loading = "ready" /\ Listed(i) /\ selected' = i
         /\ \A o \in Op : /\ call'[o].stage = call[o].stage /\ call'[o].kind = call[o].kind
                          /\ call'[o].item = call[o].item /\ call'[o].name = call[o].name
                          /\ ~call'[o].live
         /\ UNCHANGED <<begunCalls, inside, unlocks, view, list, loading, fetch, rows, born, unseen,
                        stale>>
<1>1. /\ inside /\ loading = "ready" /\ Listed(i) /\ selected' = i /\ form' = Untouched(i)
      /\ confirm' = FALSE /\ call' = Orphaned(call)
      /\ UNCHANGED <<begunCalls, inside, unlocks, view, list, loading, fetch, rows, born, unseen,
                     stale>>
  BY DEF Select, Selectable, Mount, table
<1>2. /\ call' \in [Op -> CallRecord]
      /\ \A o \in Op : /\ call'[o].stage = call[o].stage /\ call'[o].kind = call[o].kind
                       /\ call'[o].item = call[o].item /\ call'[o].name = call[o].name
                       /\ ~call'[o].live
  BY <1>1, OrphanedTyped DEF PanelTyped
<1>3. form' \in [name : Name \union {NoName}, edited : BOOLEAN]
  BY <1>1, BaseTyped DEF Form
<1>4. \A o \in Op : /\ call'[o].stage \in {"idle", "sent", "served"}
                    /\ call'[o].kind \in {"none", "add", "update", "delete"}
                    /\ call'[o].item \in Item \union {New}
                    /\ call'[o].name \in Name \union {NoName} /\ call'[o].live \in BOOLEAN
  BY <1>2 DEF CallRecord
<1>5. PanelTyped'
  BY <1>1, <1>2, <1>3, <1>4 DEF PanelTyped, PanelTypeOK
<1> QED
  BY <1>1, <1>2, <1>5

\* The steps of a load: it begins, is read, ends.
LEMMA LoadFacts ==
  ASSUME PanelTyped, NEW f \in Fetch,
         Unlock(f) \/ Retry(f) \/ FetchRead(f) \/ FetchSets(f) \/ FetchFails(f)
  PROVE  /\ PanelTyped'
         /\ \A g \in Fetch : g # f => fetch'[g] = fetch[g]
         /\ UNCHANGED <<begunCalls, view, selected, form, confirm, call, rows, born, unseen>>
<1>1. /\ \A g \in Fetch : g # f => fetch'[g] = fetch[g]
      /\ fetch' \in [Fetch -> LoadRecord]
  <2>1. CASE Unlock(f) \/ Retry(f)
    BY <2>1, StartLoadTyped DEF Unlock, Retry
  <2>2. CASE FetchRead(f)
    <3>1. [fetch[f] EXCEPT !.stage = "read", !.snap = rows] \in LoadRecord
      BY DEF PanelTyped, PanelTypeOK, LoadRecord
    <3>2. fetch' = [fetch EXCEPT ![f] = [fetch[f] EXCEPT !.stage = "read", !.snap = rows]]
      BY <2>2 DEF FetchRead, PanelTyped
    <3> QED
      BY <3>1, <3>2 DEF PanelTyped
  <2>3. CASE FetchSets(f) \/ FetchFails(f)
    BY <2>3, LoadOver DEF FetchSets, FetchFails
  <2> QED
    BY <2>1, <2>2, <2>3
<1>2. UNCHANGED <<begunCalls, view, selected, form, confirm, call, rows, born, unseen>>
  BY DEF Unlock, Retry, FetchRead, FetchSets, FetchFails, screen, table
<1>3. \A g \in Fetch : /\ fetch'[g].stage \in {"idle", "sent", "read"}
                       /\ fetch'[g].snap \in Entries /\ fetch'[g].live \in BOOLEAN
  BY <1>1 DEF LoadRecord
<1>4. /\ inside' \in BOOLEAN /\ unlocks' \in 0 .. MaxUnlocks /\ stale' \in BOOLEAN
      /\ loading' \in {"ready", "loading", "failed"}
  <2>1. /\ inside \in BOOLEAN /\ unlocks \in 0 .. MaxUnlocks /\ stale \in BOOLEAN
        /\ loading \in {"ready", "loading", "failed"}
    BY DEF PanelTyped, PanelTypeOK
  <2>2. CASE Unlock(f)
    BY <2>1, <2>2, PanelBoundAssumption DEF Unlock, StartLoad
  <2>3. CASE Retry(f)
    BY <2>1, <2>3 DEF Retry, StartLoad, screen
  <2>4. CASE FetchRead(f)
    BY <2>1, <2>4 DEF FetchRead, screen
  <2>5. CASE FetchSets(f)
    BY <2>1, <2>5, <1>3 DEF FetchSets, screen, PanelTyped, PanelTypeOK
  <2>6. CASE FetchFails(f)
    BY <2>1, <2>6 DEF FetchFails, screen
  <2> QED
    BY <2>2, <2>3, <2>4, <2>5, <2>6
<1>5. list' \in Entries
  BY DEF Unlock, Retry, FetchRead, FetchSets, FetchFails, PanelTyped, PanelTypeOK
<1>6. PanelTyped'
  BY <1>1, <1>2, <1>3, <1>4, <1>5 DEF PanelTyped, PanelTypeOK
<1> QED
  BY <1>1, <1>2, <1>6

-----------------------------------------------------------------------------
(* The panel shows what the list has.                                      *)

\* A panel that only moves, or goes, leaves the calls sound.
LEMMA CallsSoundCalm ==
  ASSUME CallsSound, born' = born,
         \A o \in Op : /\ call'[o].stage = call[o].stage /\ call'[o].kind = call[o].kind
                       /\ call'[o].item = call[o].item /\ call'[o].name = call[o].name
                       /\ call'[o].live => call[o].live /\ selected' = selected
  PROVE  CallsSound'
BY DEF CallsSound, CallSound

LEMMA StandingInit == PanelInit => Standing
<1> SUFFICES ASSUME PanelInit PROVE Standing
  OBVIOUS
<1>1. PanelTyped
  BY PanelInitTyped
<1>2. /\ \A o \in Op : call[o] = Quiet
      /\ \A f \in Fetch : fetch[f] = NoFetch
  BY DEF PanelInit
<1>3. IdsBorn
  BY <1>1, <1>2, SelectionAssumption
  DEF PanelInit, IdsBorn, Listed, NoFetch, NoEntries
<1>4. CallsSound
  BY <1>2 DEF CallsSound, CallSound, Quiet
<1>5. LoadsSound
  BY <1>2, SelectionAssumption DEF LoadsSound, PanelInit, NoFetch
<1>6. PanelShowsListed
  BY SelectionAssumption DEF PanelInit, PanelShowsListed
<1> QED
  BY <1>1, <1>3, <1>4, <1>5, <1>6 DEF Standing

LEMMA StandingScreen == Standing /\ ScreenOnly => Standing'
<1> SUFFICES ASSUME Standing, ScreenOnly PROVE Standing'
  OBVIOUS
<1> USE DEF Standing
<1>1. PanelTyped'
  BY ScreenTyped
<1>2. \A o \in Op : /\ call'[o].stage = call[o].stage /\ call'[o].kind = call[o].kind
                    /\ call'[o].item = call[o].item /\ call'[o].name = call[o].name
                    /\ call'[o].live => call[o].live /\ selected' = selected
  <2>1. CASE selected' = selected /\ call' = call
    BY <2>1
  <2>2. CASE call' = Orphaned(call)
    BY <2>2, OrphanedTyped DEF PanelTyped
  <2> QED
    BY <2>1, <2>2 DEF ScreenOnly
<1>3. CallsSound'
  BY <1>2, CallsSoundCalm DEF ScreenOnly
<1>4. IdsBorn' /\ LoadsSound' /\ PanelShowsListed'
  <2>1. selected' = selected \/ selected' \notin Item
    BY SelectionAssumption DEF ScreenOnly
  <2> QED
    BY <2>1, SelectionAssumption DEF ScreenOnly, IdsBorn, LoadsSound, PanelShowsListed, Listed
<1> QED
  BY <1>1, <1>3, <1>4

LEMMA StandingLock == Standing /\ LockVault => Standing'
<1> SUFFICES ASSUME Standing, LockVault PROVE Standing'
  OBVIOUS
<1> USE DEF Standing
<1>1. CallsSound'
  BY LockFacts, CallsSoundCalm
<1>2. IdsBorn'
  BY LockFacts, SelectionAssumption DEF IdsBorn, Listed, NoEntries
<1>3. LoadsSound' /\ PanelShowsListed'
  BY LockFacts, SelectionAssumption DEF LoadsSound, PanelShowsListed
<1> QED
  BY LockFacts, <1>1, <1>2, <1>3

LEMMA StandingSelect ==
  ASSUME Standing, NEW i \in Item, Select(i)
  PROVE  Standing'
<1> USE DEF Standing
<1>1. CallsSound'
  BY SelectFacts, CallsSoundCalm
<1>2. IdsBorn' /\ LoadsSound' /\ PanelShowsListed'
  BY SelectFacts DEF IdsBorn, LoadsSound, PanelShowsListed, Listed
<1> QED
  BY SelectFacts, <1>1, <1>2

LEMMA StandingStartLoad ==
  ASSUME Standing, NEW f \in Fetch, Unlock(f) \/ Retry(f)
  PROVE  Standing'
<1> USE DEF Standing
<1>1. /\ loading' = "loading" /\ fetch'[f].live /\ fetch'[f].stage = "sent"
      /\ fetch'[f].snap = NoEntries /\ inside' /\ selected \notin Item
      /\ \A g \in Fetch : ~fetch[g].live
      /\ UNCHANGED <<list, stale>>
  <2>1. StartLoad(f, fetch) /\ inside' /\ UNCHANGED <<list, stale>>
    BY DEF Unlock, Retry, screen
  <2>2. selected \notin Item /\ \A g \in Fetch : ~fetch[g].live
    BY SelectionAssumption DEF Unlock, Retry, LoadsSound
  <2> QED
    BY <2>1, <2>2, StartLoadTyped
<1>2. CallsSound'
  BY LoadFacts, CallsSoundCalm
<1>3. IdsBorn'
  BY <1>1, LoadFacts DEF IdsBorn, Listed, NoEntries
<1>4. LoadsSound' /\ PanelShowsListed'
  BY <1>1, LoadFacts DEF LoadsSound, PanelShowsListed
<1> QED
  BY LoadFacts, <1>2, <1>3, <1>4

LEMMA StandingFetch ==
  ASSUME Standing, NEW f \in Fetch, FetchRead(f) \/ FetchSets(f) \/ FetchFails(f)
  PROVE  Standing'
<1> USE DEF Standing
<1>1. CallsSound'
  BY LoadFacts, CallsSoundCalm
<1>2. CASE FetchRead(f)
  <2>1. /\ fetch'[f].stage = "read" /\ fetch'[f].snap = rows /\ fetch'[f].live = fetch[f].live
        /\ fetch[f].stage = "sent" /\ UNCHANGED <<list, loading, inside, stale>>
    BY <1>2 DEF FetchRead, PanelTyped, LoadRecord, screen
  <2>2. IdsBorn' /\ LoadsSound' /\ PanelShowsListed'
    BY <2>1, LoadFacts DEF IdsBorn, LoadsSound, PanelShowsListed, Listed
  <2> QED
    BY <1>1, <2>2, LoadFacts
<1>3. CASE FetchSets(f)
  <2>1. /\ fetch'[f] = NoFetch /\ list' = fetch[f].snap /\ inside' = inside
        /\ loading' = (IF fetch[f].live THEN "ready" ELSE loading)
        /\ stale' = (stale \/ ~fetch[f].live)
    BY <1>3, LoadOver DEF FetchSets, screen
  <2>2. ~NoFetch.live /\ \A i \in Item : NoFetch.snap[i] = Gone
    BY DEF NoFetch, NoEntries
  <2>3. IdsBorn'
    BY <2>1, <2>2, LoadFacts DEF IdsBorn, Listed
  <2>4. LoadsSound'
    BY <2>1, <2>2, LoadFacts DEF LoadsSound
  <2>5. PanelShowsListed'
    BY <2>1, LoadFacts DEF LoadsSound, PanelShowsListed
  <2> QED
    BY <1>1, <2>3, <2>4, <2>5, LoadFacts
<1>4. CASE FetchFails(f)
  <2>1. /\ fetch'[f] = NoFetch /\ UNCHANGED <<list, stale, inside>>
        /\ loading' = (IF fetch[f].live THEN "failed" ELSE loading)
    BY <1>4, LoadOver DEF FetchFails, screen
  <2>2. ~NoFetch.live /\ \A i \in Item : NoFetch.snap[i] = Gone
    BY DEF NoFetch, NoEntries
  <2>3. IdsBorn' /\ LoadsSound' /\ PanelShowsListed'
    BY <2>1, <2>2, LoadFacts DEF IdsBorn, Listed, LoadsSound, PanelShowsListed
  <2> QED
    BY <1>1, <2>3, LoadFacts
<1> QED
  BY <1>2, <1>3, <1>4

LEMMA StandingBegin ==
  ASSUME Standing, NEW o \in Op, Save(o) \/ Remove(o)
  PROVE  Standing'
<1> USE DEF Standing
<1>1. \E k \in {"add", "update", "delete"} :
        /\ BeginCall(o, k) /\ selected # Hint
        /\ k = "add" => selected = New
        /\ k # "add" => selected \in Item
        /\ k # "delete" => form.name \in Name
  BY SaveFacts, RemoveFacts
<1>2. PICK k \in {"add", "update", "delete"} :
        /\ BeginCall(o, k) /\ selected # Hint
        /\ k = "add" => selected = New
        /\ k # "add" => selected \in Item
        /\ k # "delete" => form.name \in Name
  BY <1>1
<1>3. /\ PanelTyped'
      /\ call'[o] = [stage |-> "sent", kind |-> k, item |-> selected, name |-> form.name,
                     live |-> TRUE]
      /\ \A p \in Op : p # o => call'[p] = call[p]
  BY <1>2, BeginCallTyped
<1>4. UNCHANGED <<inside, selected, list, loading, fetch, rows, born, stale>>
  BY <1>2 DEF BeginCall, screen, table
<1>5. CallsSound'
  <2>1. CallSound(call[o])'
    BY <1>2, <1>3, <1>4 DEF CallSound, IdsBorn
  <2>2. \A p \in Op : p # o => CallSound(call[p])'
    BY <1>3, <1>4 DEF CallsSound, CallSound
  <2> QED
    BY <2>1, <2>2 DEF CallsSound
<1>6. IdsBorn' /\ LoadsSound' /\ PanelShowsListed'
  BY <1>4 DEF IdsBorn, LoadsSound, PanelShowsListed, Listed
<1> QED
  BY <1>3, <1>5, <1>6

LEMMA StandingServe ==
  ASSUME Standing, NEW o \in Op, ServeCall(o)
  PROVE  Standing'
<1> USE DEF Standing
<1>1. born \subseteq born'
  BY ServeFacts
<1>2. CallsSound'
  <2>1. CallSound(call[o])'
    BY ServeFacts DEF CallsSound, CallSound
  <2>2. \A p \in Op : p # o => CallSound(call[p])'
    BY ServeFacts, <1>1 DEF CallsSound, CallSound
  <2> QED
    BY <2>1, <2>2 DEF CallsSound
<1>3. IdsBorn'
  BY ServeFacts, <1>1 DEF IdsBorn, Listed
<1>4. LoadsSound' /\ PanelShowsListed'
  BY ServeFacts DEF LoadsSound, PanelShowsListed, Listed
<1> QED
  BY ServeFacts, <1>2, <1>3, <1>4

LEMMA StandingAnswered ==
  ASSUME Standing, NEW o \in Op, CallAnswered(o)
  PROVE  Standing'
<1> USE DEF Standing
<1>1. CallsSound'
  BY AnswerFacts DEF CallsSound, CallSound
<1>2. IdsBorn'
  <2>1. call[o].item \in born
    BY AnswerFacts DEF CallsSound, CallSound
  <2> QED
    BY <2>1, AnswerFacts, SelectionAssumption DEF IdsBorn, Listed
<1>3. LoadsSound' /\ PanelShowsListed'
  BY AnswerFacts, SelectionAssumption DEF LoadsSound, PanelShowsListed
<1> QED
  BY AnswerFacts, <1>1, <1>2, <1>3

LEMMA StandingFails ==
  ASSUME Standing, NEW o \in Op, CallFails(o)
  PROVE  Standing'
<1> USE DEF Standing
<1>1. CallsSound'
  BY FailFacts DEF CallsSound, CallSound
<1>2. IdsBorn' /\ LoadsSound' /\ PanelShowsListed'
  BY FailFacts DEF IdsBorn, LoadsSound, PanelShowsListed, Listed
<1> QED
  BY FailFacts, <1>1, <1>2

-----------------------------------------------------------------------------
(* Names stay distinct while every one was checked against a whole list.   *)

LEMMA CleanInit == PanelInit => NamesDistinct /\ Clean
<1> SUFFICES ASSUME PanelInit PROVE NamesDistinct /\ Clean
  OBVIOUS
<1>1. /\ \A o \in Op : ~InFlight(o)
      /\ \A f \in Fetch : fetch[f].stage = "idle"
  BY DEF PanelInit, Quiet, NoFetch, InFlight
<1>2. NamesDistinct
  BY DEF PanelInit, NamesDistinct
<1>3. Clean
  BY <1>1 DEF PanelInit, Clean, Apart, ListSynced, Effects, Effect
<1> QED
  BY <1>2, <1>3

\* Calls and rows stay as they are, but for whom the calls tell.
CallsStay == \A o \in Op : /\ call'[o].stage = call[o].stage /\ call'[o].kind = call[o].kind
                           /\ call'[o].item = call[o].item /\ call'[o].name = call[o].name

LEMMA EffectsStay ==
  ASSUME Effects, CallsStay, UNCHANGED <<list, rows>>
  PROVE  Effects'
BY DEF Effects, Effect, CallsStay, InFlight, Served, Listed

LEMMA CleanStay ==
  ASSUME NamesDistinct, Clean, ~unseen, CallsStay,
         UNCHANGED <<list, rows, inside, loading, fetch, stale, unseen>>
  PROVE  NamesDistinct' /\ Clean'
<1> USE DEF Clean
<1>1. Apart' /\ ListSynced'
  BY DEF Apart, ListSynced, CallsStay, InFlight, Served
<1> QED
  BY <1>1, EffectsStay DEF NamesDistinct

LEMMA CleanScreen ==
  ASSUME Standing, NamesDistinct, Clean, ~unseen, ScreenOnly
  PROVE  NamesDistinct' /\ Clean'
<1>1. CallsStay
  <2>1. CASE call' = call
    BY <2>1 DEF CallsStay
  <2>2. CASE call' = Orphaned(call)
    BY <2>2, OrphanedTyped DEF CallsStay, Standing, PanelTyped
  <2> QED
    BY <2>1, <2>2 DEF ScreenOnly
<1> QED
  BY <1>1, CleanStay DEF ScreenOnly

LEMMA CleanSelect ==
  ASSUME Standing, NamesDistinct, Clean, ~unseen, NEW i \in Item, Select(i)
  PROVE  NamesDistinct' /\ Clean'
<1>1. CallsStay /\ UNCHANGED <<list, rows, inside, loading, fetch, stale, unseen>>
  BY SelectFacts DEF Standing, CallsStay
<1> QED
  BY <1>1, CleanStay

\* A lock that leaves the names checked finds nothing in flight.
LEMMA CleanLock ==
  ASSUME Standing, NamesDistinct, Clean, ~unseen', LockVault
  PROVE  NamesDistinct' /\ Clean'
<1>1. /\ \A o \in Op : ~InFlight(o) /\ ~InFlight(o)'
      /\ \A f \in Fetch : fetch[f].stage = "idle" /\ fetch'[f].stage = "idle"
      /\ ~unseen /\ ~inside' /\ UNCHANGED <<rows, stale>>
  BY LockFacts DEF Standing, InFlight, Fetching
<1>2. Apart' /\ ListSynced' /\ Effects'
  BY <1>1 DEF Apart, ListSynced, Effects, Effect
<1> QED
  BY <1>1, <1>2 DEF NamesDistinct, Clean

LEMMA CleanStartLoad ==
  ASSUME Standing, NamesDistinct, Clean, ~unseen, NEW f \in Fetch, Unlock(f) \/ Retry(f)
  PROVE  NamesDistinct' /\ Clean'
<1>1. /\ UNCHANGED <<call, rows, unseen, list, stale>>
      /\ loading' = "loading" /\ fetch'[f].live /\ fetch'[f].stage = "sent"
      /\ \A g \in Fetch : g # f => fetch'[g] = fetch[g]
  <2>1. StartLoad(f, fetch) /\ UNCHANGED <<call, rows, unseen, list, stale>>
    BY DEF Unlock, Retry, screen, table
  <2> QED
    BY <2>1, StartLoadTyped DEF Standing
<1>2. \A o \in Op : ~InFlight(o)
  BY DEF Unlock, Retry, Clean, Apart
<1>3. Apart' /\ ListSynced' /\ Effects'
  BY <1>1, <1>2 DEF Clean, Apart, ListSynced, Effects, Effect, InFlight
<1> QED
  BY <1>1, <1>3 DEF NamesDistinct, Clean

LEMMA CleanFetch ==
  ASSUME Standing, NamesDistinct, Clean, ~unseen, NEW f \in Fetch,
         FetchRead(f) \/ FetchSets(f) \/ FetchFails(f)
  PROVE  NamesDistinct' /\ Clean'
<1>1. /\ UNCHANGED <<call, rows, unseen>>
      /\ \A g \in Fetch : g # f => fetch'[g] = fetch[g]
  BY LoadFacts DEF Standing
<1>2. fetch[f].stage # "idle" /\ fetch[f].live /\ inside /\ loading = "loading"
  BY DEF FetchRead, FetchSets, FetchFails, Standing, LoadsSound, Clean, Apart
<1>3. \A o \in Op : ~InFlight(o) /\ ~InFlight(o)'
  BY <1>1, <1>2 DEF Clean, Apart, InFlight
<1>4. \A g \in Fetch : g # f => fetch[g].stage = "idle"
  BY <1>2 DEF Clean, Apart, Standing, LoadsSound
<1>5. CASE FetchRead(f)
  <2>1. /\ fetch'[f].stage = "read" /\ fetch'[f].snap = rows /\ fetch'[f].live = fetch[f].live
        /\ UNCHANGED <<list, loading, inside, stale>>
    BY <1>5 DEF FetchRead, Standing, PanelTyped, LoadRecord, screen
  <2>2. \A g \in Fetch : g # f => fetch'[g].stage = "idle"
    BY <1>1, <1>4
  <2>3. Apart'
    BY <1>1, <1>2, <1>3, <2>1, <2>2 DEF Apart
  <2>4. ListSynced' /\ Effects' /\ NamesDistinct'
    BY <1>1, <1>2, <1>3, <2>1 DEF NamesDistinct, ListSynced, Effects, Effect
  <2> QED
    BY <2>1, <2>3, <2>4 DEF Clean
<1>6. CASE FetchSets(f)
  <2>1. /\ fetch'[f].stage = "idle" /\ list' = fetch[f].snap /\ inside' = inside
        /\ stale' = stale
    BY <1>2, <1>6, LoadOver DEF FetchSets, screen, NoFetch, Standing, PanelTyped, PanelTypeOK
  <2>2. list' = rows
    BY <1>6, <2>1 DEF FetchSets, Clean, Apart
  <2>3. \A g \in Fetch : fetch'[g].stage = "idle"
    BY <1>1, <1>4, <2>1
  <2>4. Apart'
    BY <1>3, <2>1, <2>3 DEF Apart
  <2>5. ListSynced' /\ Effects' /\ NamesDistinct'
    BY <1>1, <1>3, <2>2 DEF NamesDistinct, ListSynced, Effects, Effect
  <2> QED
    BY <2>1, <2>4, <2>5 DEF Clean
<1>7. CASE FetchFails(f)
  <2>1. /\ fetch'[f].stage = "idle" /\ list' = list /\ inside' = inside
        /\ stale' = stale /\ loading' = "failed"
    BY <1>2, <1>7, LoadOver DEF FetchFails, screen, NoFetch, Standing, PanelTyped, PanelTypeOK
  <2>2. \A g \in Fetch : fetch'[g].stage = "idle"
    BY <1>1, <1>4, <2>1
  <2>3. Apart'
    BY <1>3, <2>1, <2>2 DEF Apart
  <2>4. ListSynced' /\ Effects' /\ NamesDistinct'
    BY <1>1, <1>3, <2>1 DEF NamesDistinct, ListSynced, Effects, Effect
  <2> QED
    BY <2>1, <2>3, <2>4 DEF Clean
<1> QED
  BY <1>5, <1>6, <1>7

\* A save that begins is alone, a delete beside a save of the same entry at most.
LEMMA CleanBegin ==
  ASSUME Standing, NamesDistinct, Clean, ~unseen', NEW o \in Op, Save(o) \/ Remove(o)
  PROVE  NamesDistinct' /\ Clean'
<1> USE DEF Standing
<1>1. \E k \in {"add", "update", "delete"} :
        /\ BeginCall(o, k) /\ selected # Hint /\ inside
        /\ k = "add" => selected = New
        /\ k # "add" => selected \in Item
        /\ k # "delete" => form.name \in Name /\ ~NameTaken /\ ~Busy
        /\ k = "delete" => ~\E p \in Op : InFlight(p) /\ call[p].live /\ call[p].kind = "delete"
  BY SaveFacts, RemoveFacts
<1>2. PICK k \in {"add", "update", "delete"} :
        /\ BeginCall(o, k) /\ selected # Hint /\ inside
        /\ k = "add" => selected = New
        /\ k # "add" => selected \in Item
        /\ k # "delete" => form.name \in Name /\ ~NameTaken /\ ~Busy
        /\ k = "delete" => ~\E p \in Op : InFlight(p) /\ call[p].live /\ call[p].kind = "delete"
  BY <1>1
<1>3. /\ call[o].stage = "idle"
      /\ call'[o].stage = "sent" /\ call'[o].kind = k /\ call'[o].item = selected
      /\ call'[o].name = form.name
      /\ \A p \in Op : p # o => call'[p] = call[p]
  BY <1>2, BeginCallTyped
<1>4. /\ UNCHANGED <<inside, selected, list, loading, fetch, rows, stale>> /\ ~unseen
      /\ loading = "ready" /\ \A f \in Fetch : fetch[f].stage = "idle"
      /\ \A p \in Op : InFlight(p) => call[p].live
  BY <1>2 DEF BeginCall, screen, table, Fetching
<1>5. \A p \in Op : InFlight(p) =>
        call[p].kind = "update" /\ call[p].item = selected /\ k = "delete"
  <2>1. SUFFICES ASSUME NEW p \in Op, InFlight(p)
                 PROVE  call[p].kind = "update" /\ call[p].item = selected /\ k = "delete"
    OBVIOUS
  <2>2. call[p].live /\ k = "delete" /\ call[p].kind # "delete" /\ selected \in Item
    BY <1>2, <1>4, <2>1 DEF Busy
  <2>3. CallSound(call[p]) /\ call[p].kind \in {"none", "add", "update", "delete"}
    BY DEF CallsSound, PanelTyped, PanelTypeOK
  <2> QED
    BY <2>1, <2>2, <2>3, SelectionAssumption DEF CallSound, InFlight
<1>6. NamesDistinct'
  BY <1>4 DEF NamesDistinct
<1>7. Apart'
  BY <1>2, <1>3, <1>4, <1>5 DEF Clean, Apart, InFlight
<1>8. ListSynced'
  BY <1>3, <1>4 DEF Clean, ListSynced, Served
<1>9. Effect(o)'
  <2>1. k # "delete" => \A j \in Item : j # selected => list[j] # form.name
    BY <1>2, NameAssumption DEF NameTaken, Listed
  <2>2. k = "update" => Listed(selected)
    BY <1>2 DEF PanelShowsListed, Clean
  <2> QED
    BY <1>2, <1>3, <1>4, <2>1, <2>2 DEF Effect, Listed
<1>10. \A p \in Op : p # o => Effect(p)'
  BY <1>3, <1>4, <1>5 DEF Clean, Effects, Effect, InFlight, Served, Listed
<1> QED
  BY <1>4, <1>6, <1>7, <1>8, <1>9, <1>10 DEF Clean, Effects

\* A call that is served changes one row, and no other name.
LEMMA CleanServe ==
  ASSUME Standing, NamesDistinct, Clean, ~unseen, NEW o \in Op, ServeCall(o)
  PROVE  NamesDistinct' /\ Clean'
<1> USE DEF Standing
<1> DEFINE c == call[o]
           n == call'[o].item
<1>1. /\ c.stage = "sent" /\ call'[o].stage = "served" /\ call'[o].kind = c.kind
      /\ call'[o].name = c.name /\ \A p \in Op : p # o => call'[p] = call[p]
      /\ \A i \in Item : i # n => rows'[i] = rows[i]
      /\ rows'[n] = IF c.kind = "delete" THEN Gone ELSE c.name
      /\ c.kind = "add" => n \notin born
      /\ c.kind # "add" => n = c.item /\ rows[n] # Gone
      /\ UNCHANGED <<inside, list, loading, fetch, stale>>
  BY ServeFacts
<1>2. /\ InFlight(o) /\ c.kind \in {"add", "update", "delete"} /\ n \in Item
      /\ c.kind # "delete" => c.name \in Name
      /\ inside /\ loading = "ready" /\ \A f \in Fetch : fetch[f].stage = "idle"
  <2>1. InFlight(o) /\ c.kind # "none" /\ (c.kind # "delete" => c.name \in Name)
    BY <1>1 DEF InFlight, CallsSound, CallSound
  <2>2. c.kind \in {"none", "add", "update", "delete"} /\ born' \subseteq Item /\ n \in born'
    BY ServeFacts DEF PanelTyped, PanelTypeOK
  <2>3. inside /\ loading = "ready"
    BY <2>1 DEF Clean, Apart
  <2>4. \A f \in Fetch : fetch[f].stage = "idle"
    BY <2>3 DEF Clean, Apart, LoadsSound
  <2> QED
    BY <2>1, <2>2, <2>3, <2>4
<1>3. \A p \in Op : p # o /\ InFlight(p) =>
        /\ call[p].item = n /\ c.kind # "add" /\ call[p].kind # "add" /\ call[p].kind # c.kind
  BY <1>1, <1>2 DEF Clean, Apart
<1>4. \A j \in Item : j # n => list[j] = rows[j]
  BY <1>1, <1>2, <1>3 DEF Clean, ListSynced, Served, InFlight
<1>5. c.kind # "delete" => \A j \in Item : j # n => rows[j] # c.name
  <2>1. Effect(o) /\ (c.item \notin Item \/ c.item = n)
    BY <1>1, <1>2, SelectionAssumption DEF Clean, Effects, CallsSound, CallSound
  <2> QED
    BY <1>1, <1>2, <1>4, <2>1 DEF Effect
<1>6. NamesDistinct'
  BY <1>1, <1>2, <1>5 DEF NamesDistinct
<1>7. Apart'
  <2>1. \A p \in Op : InFlight(p)' => InFlight(p)
    BY <1>1, <1>2 DEF InFlight
  <2>2. \A p \in Op : p # o /\ InFlight(p) => c.kind # "add" /\ call[p].item = n
    BY <1>3
  <2> QED
    BY <1>1, <1>2, <1>3, <2>1, <2>2 DEF Clean, Apart
<1>8. ListSynced'
  BY <1>1, <1>2, <1>4 DEF ListSynced, Served
<1>9. Effect(o)'
  <2>1. c.kind # "delete" => \A j \in Item : j # n => list[j] # c.name
    BY <1>4, <1>5
  <2>2. c.kind = "update" => Listed(n)
    BY <1>1, <1>2 DEF Clean, Effects, Effect
  <2> QED
    BY <1>1, <1>2, <2>1, <2>2 DEF Effect, Listed
<1>10. \A p \in Op : p # o => Effect(p)'
  <2>1. SUFFICES ASSUME NEW p \in Op, p # o, InFlight(p) PROVE Effect(p)'
    BY <1>1 DEF Effect, InFlight
  <2>2. /\ Effect(p) /\ call'[p] = call[p] /\ call[p].item = n
        /\ call[p].kind # "add" /\ call[p].kind # c.kind /\ c.kind # "add"
    BY <1>1, <1>3, <2>1 DEF Clean, Effects
  <2>3. CASE c.kind = "delete"
    <3>1. rows'[n] = Gone /\ call'[o].stage = "served" /\ call'[o].item = n
          /\ call'[o].kind = "delete" /\ list' = list
      BY <1>1, <2>3
    <3>2. call[p].kind # "delete"
      BY <2>2, <2>3
    <3> QED
      BY <2>1, <2>2, <3>1, <3>2 DEF Effect, Listed, Served
  <2>4. CASE c.kind = "update"
    BY <1>1, <1>2, <2>1, <2>2, <2>4 DEF Effect, Listed, CallsSound, CallSound, InFlight, PanelTyped, PanelTypeOK
  <2> QED
    BY <1>2, <2>2, <2>3, <2>4
<1> QED
  BY <1>1, <1>6, <1>7, <1>8, <1>9, <1>10 DEF Clean, Effects

\* An answer brings the list to the row, as far as no other call has changed it.
LEMMA CleanAnswered ==
  ASSUME Standing, NamesDistinct, Clean, ~unseen, NEW o \in Op, CallAnswered(o)
  PROVE  NamesDistinct' /\ Clean'
<1> USE DEF Standing
<1> DEFINE c == call[o]
<1>1. /\ c.stage = "served" /\ c.item \in Item /\ c.kind \in {"add", "update", "delete"}
      /\ InFlight(o) /\ Effect(o) /\ (c.kind # "delete" => c.name \in Name)
      /\ \A i \in Item : i # c.item => list'[i] = list[i]
      /\ list'[c.item] = IF c.kind = "delete" THEN Gone
                         ELSE IF c.kind = "add" \/ Listed(c.item) THEN c.name ELSE Gone
      /\ UNCHANGED <<inside, loading, fetch, rows, stale>>
  BY AnswerFacts DEF InFlight, Clean, Effects, CallsSound, CallSound
<1>2. \A p \in Op : /\ InFlight(p)' => InFlight(p) /\ p # o
                    /\ p # o => /\ call'[p].stage = call[p].stage /\ call'[p].kind = call[p].kind
                                /\ call'[p].item = call[p].item /\ call'[p].name = call[p].name
  BY AnswerFacts DEF InFlight
<1>3. \A p \in Op : p # o /\ InFlight(p) =>
        /\ call[p].item = c.item /\ c.kind # "add" /\ call[p].kind # "add" /\ call[p].kind # c.kind
  BY <1>1 DEF Clean, Apart
<1>4. inside /\ loading = "ready" /\ \A f \in Fetch : fetch[f].stage = "idle"
  <2>1. inside /\ loading = "ready"
    BY <1>1 DEF Clean, Apart
  <2> QED
    BY <2>1 DEF Clean, Apart, LoadsSound
<1>5. NamesDistinct'
  BY <1>1 DEF NamesDistinct
<1>6. Apart'
  BY <1>1, <1>2, <1>4 DEF Clean, Apart
<1>7. ListSynced'
  <2>1. \A i \in Item : i # c.item => list'[i] = rows'[i]
    BY <1>1, <1>3, <1>4 DEF Clean, ListSynced, Served, InFlight
  <2>2. \/ list'[c.item] = rows'[c.item]
        \/ \E p \in Op : call'[p].stage = "served" /\ call'[p].item = c.item
    <3>1. CASE c.kind # "update"
      BY <1>1, <3>1 DEF Effect
    <3>2. CASE c.kind = "update" /\ rows[c.item] = c.name
      BY <1>1, <3>2, NameAssumption DEF Effect
    <3>3. CASE c.kind = "update" /\ rows[c.item] # c.name
      <4>1. /\ rows[c.item] = Gone
            /\ ~Listed(c.item) \/ \E p \in Op : Served(p, c.item) /\ call[p].kind = "delete"
        BY <1>1, <3>3 DEF Effect
      <4>2. \A p \in Op : Served(p, c.item) /\ call[p].kind = "delete" =>
              call'[p].stage = "served" /\ call'[p].item = c.item
        BY <1>2, <3>3 DEF Served
      <4> QED
        BY <1>1, <3>3, <4>1, <4>2
    <3> QED
      BY <3>1, <3>2, <3>3
  <2> QED
    BY <2>1, <2>2 DEF ListSynced, Served
<1>8. \A p \in Op : Effect(p)'
  <2>1. SUFFICES ASSUME NEW p \in Op, InFlight(p)' PROVE Effect(p)'
    BY DEF Effect
  <2>2. /\ p # o /\ InFlight(p) /\ Effect(p) /\ call[p].item = c.item
        /\ call[p].kind # "add" /\ call[p].kind # c.kind /\ c.kind # "add"
        /\ call'[p].stage = call[p].stage /\ call'[p].kind = call[p].kind
        /\ call'[p].item = call[p].item /\ call'[p].name = call[p].name
    BY <1>2, <1>3, <2>1 DEF Clean, Effects
  <2>3. CASE c.kind = "delete"
    <3>1. list'[c.item] = Gone /\ rows'[c.item] = Gone
      BY <1>1, <2>3 DEF Effect
    <3>2. \A j \in Item : j # c.item => list'[j] = list[j]
      BY <1>1
    <3> QED
      BY <2>2, <2>3, <3>1, <3>2 DEF Effect, Listed
  <2>4. CASE c.kind = "update"
    <3>1. call[p].kind \notin {"add", "update"} /\ rows' = rows
      BY <1>1, <2>2, <2>4
    <3>2. call[p].kind = "delete"
      BY <2>2, <3>1 DEF CallsSound, CallSound, InFlight, PanelTyped, PanelTypeOK
    <3> QED
      BY <2>2, <3>1, <3>2 DEF Effect, InFlight
  <2> QED
    BY <1>1, <2>2, <2>3, <2>4
<1> QED
  BY <1>1, <1>5, <1>6, <1>7, <1>8 DEF Clean, Effects

\* A call that failed without being served changed nothing.
LEMMA CleanFails ==
  ASSUME Standing, NamesDistinct, Clean, ~unseen', NEW o \in Op, CallFails(o)
  PROVE  NamesDistinct' /\ Clean'
<1> USE DEF Standing
<1>1. /\ call[o].stage = "sent" /\ call'[o].stage = "idle" /\ ~unseen
      /\ \A p \in Op : p # o => call'[p] = call[p]
      /\ UNCHANGED <<inside, list, loading, fetch, rows, stale>>
  BY FailFacts DEF PanelTyped, PanelTypeOK
<1>2. NamesDistinct'
  BY <1>1 DEF NamesDistinct
<1>3. Apart'
  BY <1>1 DEF Clean, Apart, InFlight
<1>4. ListSynced'
  BY <1>1 DEF Clean, ListSynced, Served
<1>5. Effects'
  <2>1. \A p \in Op, i \in Item : Served(p, i) => Served(p, i)' /\ call'[p].kind = call[p].kind
    BY <1>1 DEF Served
  <2>2. SUFFICES ASSUME NEW p \in Op, InFlight(p)' PROVE Effect(p)'
    BY DEF Effects, Effect
  <2>3. InFlight(p) /\ Effect(p) /\ call'[p] = call[p] /\ p # o
    BY <1>1, <2>2 DEF InFlight, Clean, Effects
  <2>4. call[p].kind = "update" => call[p].item \in Item
    BY DEF PanelTyped, PanelTypeOK
  <2> QED
    BY <1>1, <2>1, <2>3, <2>4 DEF Effect, Listed
<1> QED
  BY <1>1, <1>2, <1>3, <1>4, <1>5 DEF Clean

-----------------------------------------------------------------------------
(* The theorems about the vault screen.                                    *)

LEMMA PanelInitInv == PanelInit => PanelInv
BY StandingInit, CleanInit DEF PanelInv

LEMMA PanelStutter == PanelInv /\ UNCHANGED panelVars => PanelInv'
<1> SUFFICES ASSUME PanelInv, UNCHANGED panelVars PROVE PanelInv'
  OBVIOUS
<1>1. /\ UNCHANGED <<inside, unlocks, view, selected, form, confirm, list, loading, fetch>>
      /\ UNCHANGED <<call, begunCalls, rows, born, unseen, stale>>
  BY DEF panelVars, screen, table
<1>2. PanelTyped'
  BY <1>1 DEF PanelInv, Standing, PanelTyped, PanelTypeOK, CallRecord
<1>3. IdsBorn' /\ CallsSound' /\ LoadsSound' /\ PanelShowsListed'
  BY <1>1 DEF PanelInv, Standing, IdsBorn, CallsSound, CallSound, LoadsSound, PanelShowsListed, Listed
<1>4. ~unseen' => NamesDistinct' /\ Clean'
  <2>1. CallsStay
    BY <1>1 DEF CallsStay
  <2> QED
    BY <1>1, <2>1, CleanStay DEF PanelInv
<1> QED
  BY <1>2, <1>3, <1>4 DEF PanelInv, Standing

LEMMA PanelStep == PanelInv /\ [PanelNext]_panelVars => PanelInv'
<1> SUFFICES ASSUME PanelInv, [PanelNext]_panelVars PROVE PanelInv'
  OBVIOUS
<1>1. Standing /\ (~unseen => NamesDistinct /\ Clean)
  BY DEF PanelInv
<1>2. CASE \/ \E v \in View : Navigate(v)
           \/ AddItem \/ Close \/ Escape \/ EditField \/ UseForged \/ AskDelete
           \/ \E n \in Name \union {NoName} : TypeName(n)
  <2>1. ScreenOnly
    BY <1>1, <1>2, ScreenSteps, Zenon DEF Standing
  <2>2. unseen' = unseen
    BY <2>1 DEF ScreenOnly
  <2> QED
    BY <1>1, <2>1, <2>2, StandingScreen, CleanScreen DEF PanelInv
<1>3. CASE LockVault
  BY <1>1, <1>3, StandingLock, CleanLock, LockFacts DEF PanelInv, Standing
<1>4. ASSUME NEW i \in Item, Select(i) PROVE PanelInv'
  BY <1>1, <1>4, StandingSelect, CleanSelect, SelectFacts DEF PanelInv, Standing
<1>5. ASSUME NEW f \in Fetch, Unlock(f) \/ Retry(f) PROVE PanelInv'
  BY <1>1, <1>5, StandingStartLoad, CleanStartLoad, LoadFacts DEF PanelInv, Standing
<1>6. ASSUME NEW f \in Fetch, FetchRead(f) \/ FetchSets(f) \/ FetchFails(f) PROVE PanelInv'
  BY <1>1, <1>6, StandingFetch, CleanFetch, LoadFacts DEF PanelInv, Standing
<1>7. ASSUME NEW o \in Op, Save(o) \/ Remove(o) PROVE PanelInv'
  <2>1. unseen => unseen'
    BY <1>7 DEF Save, Remove, BeginCall
  <2> QED
    BY <1>1, <1>7, <2>1, StandingBegin, CleanBegin DEF PanelInv
<1>8. ASSUME NEW o \in Op, ServeCall(o) PROVE PanelInv'
  BY <1>1, <1>8, StandingServe, CleanServe, ServeFacts DEF PanelInv, Standing
<1>9. ASSUME NEW o \in Op, CallAnswered(o) PROVE PanelInv'
  BY <1>1, <1>9, StandingAnswered, CleanAnswered, AnswerFacts DEF PanelInv, Standing
<1>10. ASSUME NEW o \in Op, CallFails(o) PROVE PanelInv'
  BY <1>1, <1>10, StandingFails, CleanFails, FailFacts DEF PanelInv, Standing
<1>11. CASE UNCHANGED panelVars
  BY <1>11, PanelStutter
<1> QED
  BY <1>2, <1>3, <1>4, <1>5, <1>6, <1>7, <1>8, <1>9, <1>10, <1>11, Zenon
  DEF PanelNext, User, Answers

\* The vault screen, its calls and its loads keep what PanelInv says of them, however
\* they overlap: saves and deletes, loads of this and of earlier unlocks, locks.
THEOREM PanelInvariance == PanelSpec => []PanelInv
<1>1. PanelInit => PanelInv
  BY PanelInitInv
<1>2. PanelInv /\ [PanelNext]_panelVars => PanelInv'
  BY PanelStep
<1> QED
  BY <1>1, <1>2, PTL DEF PanelSpec

\* Every variable is of its kind; a save or delete of an entry names one.
THEOREM PanelTypeCorrect == PanelSpec => []PanelTypeOK
<1>1. PanelInv => PanelTypeOK
  BY DEF PanelInv, Standing, PanelTyped
<1> QED
  BY <1>1, PanelInvariance, PTL

\* onDone clears the selection whoever's answer it is: so the panel never shows an
\* entry the list has lost, unless a load of an earlier unlock replaced the list.
THEOREM PanelShows == PanelSpec => []PanelShowsListed
<1>1. PanelInv => PanelShowsListed
  BY DEF PanelInv, Standing
<1> QED
  BY <1>1, PanelInvariance, PTL

\* The check in the browser is enough: as long as every name was compared with a
\* whole list, no two rows of the server ever have the same name.
THEOREM NamesStayDistinct == PanelSpec => []NamesDistinct
<1>1. PanelInv => NamesDistinct
  BY DEF PanelInv, NamesDistinct
<1> QED
  BY <1>1, PanelInvariance, PTL

-----------------------------------------------------------------------------
(* The account screens: what is on screen, and whom a call still tells.    *)

SettingsRecord ==
  [open : BOOLEAN, two : {"loading", "unknown", "off", "scanning", "codes", "on", "disabling"},
   probe : {"none", "asked", "off", "on"}, busy : BOOLEAN, codes : Secret \union {None},
   codesTick : BOOLEAN, kit : {"idle", "working", "done"}, key : Secret \union {None},
   keyTick : BOOLEAN, kdf : {"none", "prompt", "working", "done"}, changing : BOOLEAN]
RecoverRecord == [acct : Account \union {None}, key : Secret \union {None},
                  phase : {"email", "password", "working"}]
Sections      == {"regenerate", "upgrade", "password", "confirm", "disable"}

\* The sections of Settings, each with what it shows.
Whole(s) ==
  /\ s \in SettingsRecord
  /\ (s.codes # None) = (s.two = "codes") /\ (s.key # None) = (s.kit = "done")
  /\ s.two # "loading" => s.probe = "none"
  /\ s.keyTick => s.kit = "done"
  /\ s.codesTick => s.two = "codes"
  /\ ~s.open => s = [Closed EXCEPT !.kdf = s.kdf]

\* Who is in, and which of the screens before the vault holds what.
Seated ==
  /\ who \in Account \union {None} /\ entered \in BOOLEAN /\ (entered => who # None)
  /\ authScreen \in {"unlock", "signup", "recover", "recovery"}
  /\ asked \in {"none", "form", "demo"} /\ (asked # "none" => who = None)
  /\ slot \in Secret \union {None} /\ ((slot # None) = (authScreen = "recovery"))
  /\ kitTick \in BOOLEAN /\ (kitTick => Shows("recovery"))
  /\ joining \in BOOLEAN /\ (joining => Shows("signup"))
  /\ recover \in RecoverRecord /\ (recover # Blank => Shows("recover") /\ recover.acct \in Account)
  /\ settings.open => Inside

\* What the server keeps, and what the person has and has lost.
Kept ==
  /\ kit \in [Account -> Secret \union {None}] /\ factor \in [Account -> Secret \union {None}]
  /\ begun \subseteq Account /\ outdated \subseteq Account /\ unheard \subseteq Account
  /\ saved \subseteq Secret /\ gone \subseteq Secret

\* The locks, and the notices about them: of the lock that brought the person to the
\* unlock screen, if of any, but for the moments the timer and the demo leave.
Explained ==
  /\ lockNo \in 0 .. MaxLocks /\ postLock \in 0 .. lockNo /\ session \in 0 .. lockNo
  /\ clearing \in BOOLEAN /\ byDemo \in BOOLEAN
  /\ who # None => lockNo < MaxLocks
  /\ ~clearing /\ ~byDemo => postLock \in (IF who = None THEN {0, lockNo} ELSE {0})
  /\ session \in (IF who = None THEN {0, lockNo} ELSE {0})

\* A request has an id of its own.
Numbered ==
  /\ calls \subseteq Request /\ sent \in 0 .. MaxCalls
  /\ \A c \in calls : c.id <= sent
  /\ \A c, d \in calls : c.id = d.id => c = d

\* A call that still tells the screen that sent it finds that screen as it was.
CallPlaced(c) ==
  c.on =>
    /\ c.kind = "signup" => joining
    /\ c.kind = "recover" => recover.phase = "working"
    /\ c.kind \in Sections => settings.open /\ c.acct = who
    /\ c.kind = "regenerate" => settings.kit = "working"
    /\ c.kind \in Writes => settings.two \notin {"loading", "unknown"}
Waits(c) == c.on /\ c.kind \in {"signup", "recover", "regenerate"}
Placed ==
  /\ \A c \in calls : CallPlaced(c)
  /\ \A c, d \in calls : Waits(c) /\ Waits(d) /\ c.kind = d.kind => c = d

\* No account knows a secret that is yet to be made.
Unmade ==
  /\ \A a \in Account : kit[a] \in Account \union {None} \union 1 .. sent
                        /\ factor[a] \in {None} \union 1 .. sent
  /\ \A c \in calls, a \in Account : c.stage # "ok" => kit[a] # c.id /\ factor[a] # c.id
  /\ \A d \in calls : d.kind = "disable" =>
       /\ d.key \in {None} \union 1 .. sent
       /\ \A c \in calls : c.stage # "ok" => d.key # c.id

Ready(k) == {c \in calls : c.kind = k /\ c.on /\ c.stage = "ok"}

\* The codes on screen, or on their way to it, are those in force, and nothing sent
\* will end them; a confirmation or a TURN OFF that can still succeed finds the
\* section where it belongs.
InForce ==
  /\ settings.two = "codes" =>
       /\ factor[who] = settings.codes
       /\ \A d \in calls : d.kind = "disable" => d.key # settings.codes
  /\ \A c \in Ready("confirm") :
       /\ factor[c.acct] = c.id /\ settings.two \in {"scanning", "off"}
       /\ \A d \in calls : d.kind = "disable" => d.key # c.id
  /\ \A c \in Ready("disable") :
       factor[who] = None /\ who \notin begun /\ settings.two \in {"on", "disabling"}
  /\ \A c, d \in Ready("confirm") \union Ready("disable") : c = d
  /\ \A c \in Here({"disable"}) :
       c.stage = "sent" /\ factor[who] # None /\ c.key = factor[who] => settings.two \in {"on", "disabling"}
  /\ \A c \in Here({"confirm"}) :
       c.stage = "sent" /\ factor[who] = None /\ who \in begun /\ c.key # None => settings.two \in {"scanning", "off"}

\* Unless a write was answered to nobody, the section is wrong about two-factor only
\* until the answer that is ready for it.
Truthful ==
  settings.open /\ who \notin unheard /\ (\A c \in calls : c.kind \in Writes /\ c.acct = who => c.on) =>
    /\ settings.two \in {"off", "scanning"} => factor[who] = None \/ Ready("confirm") # {}
    /\ settings.two \in {"on", "disabling"} => factor[who] # None \/ Ready("disable") # {}
    /\ settings.probe = "off" => factor[who] = None
    /\ settings.probe = "on" => factor[who] # None

\* A ticked box is about a secret that is saved; a call nobody waits for brings one
\* that is saved or was let go.
Boxes ==
  /\ settings.keyTick => settings.key \in saved
  /\ settings.codesTick => settings.codes \in saved
Ticked ==
  /\ Boxes
  /\ \A c \in calls : c.kind \in {"regenerate", "confirm"} /\ ~c.on => c.id \in gone \union saved

ScreensInv ==
  /\ Seated /\ Kept /\ Explained /\ Whole(settings) /\ Numbered /\ Placed /\ Unmade
  /\ InForce /\ Truthful /\ Ticked /\ OnceShownIsKept

-----------------------------------------------------------------------------
(* Types and ids.                                                          *)

Same(c, d) == c.id = d.id /\ c.kind = d.kind /\ c.acct = d.acct /\ c.key = d.key /\ c.stage = d.stage
Unique(cs) == \A c, d \in cs : c.id = d.id => c = d

LEMMA LeftBehindFacts ==
  ASSUME NEW cs, cs \subseteq Request, Unique(cs), NEW K
  PROVE  /\ LeftBehind(cs, K) \subseteq Request /\ Unique(LeftBehind(cs, K))
         /\ \A c \in LeftBehind(cs, K) : \E d \in cs : Same(c, d) /\ (c.on <=> d.on /\ d.kind \notin K)
         /\ \A d \in cs : \E c \in LeftBehind(cs, K) : Same(c, d) /\ (c.on <=> d.on /\ d.kind \notin K)
<1> DEFINE Left(c) == IF c.kind \in K THEN [c EXCEPT !.on = FALSE] ELSE c
<1>1. \A d \in cs : Left(d) \in Request /\ Same(Left(d), d) /\ (Left(d).on <=> d.on /\ d.kind \notin K)
  BY DEF Request, Same
<1>2. LeftBehind(cs, K) = {Left(c) : c \in cs}
  BY DEF LeftBehind
<1>3. Unique(LeftBehind(cs, K))
  <2>1. SUFFICES ASSUME NEW c \in cs, NEW d \in cs, Left(c).id = Left(d).id PROVE Left(c) = Left(d)
    BY <1>2 DEF Unique
  <2>2. c = d
    BY <1>1, <2>1 DEF Unique, Same
  <2> QED
    BY <2>2
<1> HIDE DEF Left
<1> QED
  BY <1>1, <1>2, <1>3

LEMMA SubmitFacts ==
  ASSUME Numbered, NEW k \in Kinds, NEW a \in Account, NEW x \in Secret \union {None}, Submit(k, a, x)
  PROVE  /\ Numbered' /\ sent' = sent + 1 /\ sent < MaxCalls
         /\ \E c \in Request : /\ calls' = calls \union {c}
                               /\ c = [id |-> sent + 1, kind |-> k, acct |-> a, key |-> x,
                                       stage |-> "sent", on |-> TRUE]
                               /\ \A d \in calls : d.id # c.id
<1> DEFINE c == [id |-> sent + 1, kind |-> k, acct |-> a, key |-> x, stage |-> "sent", on |-> TRUE]
<1>1. sent \in Nat /\ sent < MaxCalls /\ MaxCalls \in Nat /\ sent' = sent + 1 /\ calls' = calls \union {c}
  BY BoundAssumption DEF Submit, Numbered
<1>2. c \in Request /\ c.id = sent + 1
  BY <1>1 DEF Request
<1>3. \A d \in calls : d.id \in Nat /\ d.id <= sent
  BY DEF Numbered, Request
<1> HIDE DEF c
<1>4. Numbered'
  <2>1. sent' \in 0 .. MaxCalls /\ calls' \subseteq Request
    BY <1>1, <1>2 DEF Numbered
  <2>2. \A d \in calls' : d.id <= sent'
    BY <1>1, <1>2, <1>3
  <2>3. \A d, e \in calls' : d.id = e.id => d = e
    BY <1>1, <1>2, <1>3 DEF Numbered
  <2> QED
    BY <2>1, <2>2, <2>3 DEF Numbered
<1>5. \A d \in calls : d.id # c.id
  BY <1>1, <1>2, <1>3
<1> QED
  BY <1>1, <1>2, <1>4, <1>5 DEF c

LEMMA SeatedStay ==
  ASSUME Seated, UNCHANGED <<who, entered, asked, preAuth>>, settings'.open = settings.open
  PROVE  Seated'
BY DEF Seated, preAuth, Shows, Inside, RecoverRecord

LEMMA SeatedUnlock ==
  ASSUME Seated, Kept, NEW a, NEW how,
         \/ a \in Account /\ Opened(a)
         \/ how \in {"form", "demo"} /\ Ask(how)
         \/ AskFails \/ Enter \/ OnUnlocked \/ SessionLostLate
  PROVE  Seated'
<1> USE DEF preAuth, notices, person
<1>1. CASE (how \in {"form", "demo"} /\ Ask(how)) \/ AskFails
  BY <1>1 DEF Ask, AskFails, Seated, Shows, Inside, RecoverRecord
<1>2. CASE a \in Account /\ Opened(a)
  BY <1>2, NoneAssumption DEF Opened, Seated, Shows, Inside, RecoverRecord, Secret, SettingsRecord
<1>3. CASE Enter
  BY <1>3, NoneAssumption DEF Enter, Seated, Shows, Inside, RecoverRecord, Blank
<1>4. CASE OnUnlocked \/ SessionLostLate
  BY <1>4 DEF OnUnlocked, SessionLostLate, Seated, Shows, Inside, RecoverRecord
<1> QED
  BY <1>1, <1>2, <1>3, <1>4

LEMMA SeatedBefore ==
  ASSUME Seated, Kept, Numbered, NEW a, NEW to,
         \/ to \in {"signup", "recover"} /\ Go(to)
         \/ a \in Account /\ (SignUp(a) \/ FindAndTryKey(a))
         \/ GoBack \/ Finish \/ TickKit \/ Continue
  PROVE  Seated'
<1> USE DEF preAuth, notices, person
<1>1. CASE to \in {"signup", "recover"} /\ Go(to)
  BY <1>1 DEF Go, Seated, Shows, Inside, RecoverRecord
<1>2. CASE GoBack
  BY <1>2 DEF GoBack, Seated, Shows, Inside, RecoverRecord, Blank
<1>3. CASE SignUp(a)
  BY <1>3 DEF SignUp, Seated, Shows, Inside, RecoverRecord
<1>4. CASE a \in Account /\ FindAndTryKey(a)
  BY <1>4 DEF FindAndTryKey, Seated, Kept, Shows, Inside, RecoverRecord
<1>5. CASE Finish
  BY <1>5 DEF Finish, Seated, Shows, Inside, RecoverRecord, Blank
<1>6. CASE TickKit
  BY <1>6 DEF TickKit, Seated, Shows, Inside, RecoverRecord
<1>7. CASE Continue
  BY <1>7 DEF Continue, Seated, Shows, Inside, RecoverRecord
<1> QED
  BY <1>1, <1>2, <1>3, <1>4, <1>5, <1>6, <1>7

LEMMA SeatedLeave ==
  ASSUME Seated, Whole(settings), Lock \/ SessionLost \/ OpenSettings \/ LeaveSettings
  PROVE  Seated' /\ Whole(settings')
<1> USE DEF preAuth, notices, person
<1>1. \A k \in {"none", "prompt", "working", "done"} :
        Whole([Closed EXCEPT !.kdf = k]) /\ ~[Closed EXCEPT !.kdf = k].open
  BY DEF Whole, Closed, SettingsRecord
<1>2. CASE Lock \/ SessionLost
  <2>1. settings' = [Closed EXCEPT !.kdf = "none"] /\ who' = None /\ entered' = FALSE
    BY <1>2 DEF Lock, SessionLost, LockNow, SectionsUnmount
  <2>2. UNCHANGED <<asked, authScreen, slot, kitTick, joining, recover>>
    BY <1>2 DEF Lock, SessionLost
  <2>3. ~settings'.open /\ Whole(settings')
    BY <1>1, <2>1
  <2>4. Seated'
    BY <2>1, <2>2, <2>3 DEF Seated, Shows, Inside, RecoverRecord
  <2> QED
    BY <2>3, <2>4
<1>3. CASE LeaveSettings
  <2>1. \E k \in {"none", "prompt"} : settings' = [Closed EXCEPT !.kdf = k]
    BY <1>3 DEF LeaveSettings, SectionsUnmount
  <2> QED
    BY <1>1, <1>3, <2>1 DEF LeaveSettings, Seated, Shows, Inside, RecoverRecord
<1>4. CASE OpenSettings
  <2>1. /\ Inside /\ settings \in SettingsRecord /\ settings = [Closed EXCEPT !.kdf = settings.kdf]
        /\ settings' = [settings EXCEPT !.open = TRUE, !.two = "loading", !.probe = "asked"]
    BY <1>4 DEF OpenSettings, Whole
  <2>2. Whole(settings')
    BY <2>1 DEF Whole, SettingsRecord, Closed
  <2> QED
    BY <1>4, <2>1, <2>2 DEF OpenSettings, Seated, Shows, Inside, RecoverRecord
<1> QED
  BY <1>2, <1>3, <1>4

\* The steps of the sections of Settings.
SectionStep ==
  \/ IssueKit \/ TickKey \/ KitDone \/ UpgradeKdf \/ ChangePassword
  \/ ProbeServed \/ ProbeAnswered \/ ProbeFails \/ Recheck \/ Begin
  \/ ConfirmFactor \/ AskTurnOff \/ TurnOff \/ Cancel \/ TickCodes \/ CodesDone

LEMMA SectionSteps ==
  ASSUME Whole(settings), SectionStep
  PROVE  /\ Whole(settings') /\ settings.open /\ settings'.open
         /\ UNCHANGED <<who, entered, asked, preAuth, notices>>
<1>1. CASE IssueKit
  BY <1>1 DEF IssueKit, Whole, SettingsRecord
<1>2. CASE TickKey
  BY <1>2 DEF TickKey, Whole, SettingsRecord
<1>3. CASE KitDone
  BY <1>3 DEF KitDone, Whole, SettingsRecord
<1>4. CASE UpgradeKdf
  BY <1>4 DEF UpgradeKdf, Whole, SettingsRecord
<1>5. CASE ChangePassword
  BY <1>5 DEF ChangePassword, Whole, SettingsRecord
<1>6. CASE ProbeServed
  BY <1>6 DEF ProbeServed, Whole, SettingsRecord
<1>7. CASE ProbeAnswered
  BY <1>7 DEF ProbeAnswered, Whole, SettingsRecord
<1>8. CASE ProbeFails
  BY <1>8 DEF ProbeFails, Whole, SettingsRecord
<1>9. CASE Recheck
  BY <1>9 DEF Recheck, Whole, SettingsRecord
<1>10. CASE Begin
  BY <1>10 DEF Begin, Whole, SettingsRecord
<1>11. CASE ConfirmFactor
  BY <1>11 DEF ConfirmFactor, Whole, SettingsRecord
<1>12. CASE AskTurnOff
  BY <1>12 DEF AskTurnOff, Whole, SettingsRecord
<1>13. CASE TurnOff
  BY <1>13 DEF TurnOff, Whole, SettingsRecord
<1>14. CASE Cancel
  BY <1>14 DEF Cancel, Whole, SettingsRecord
<1>15. CASE TickCodes
  BY <1>15 DEF TickCodes, Whole, SettingsRecord
<1>16. CASE CodesDone
  BY <1>16 DEF CodesDone, Whole, SettingsRecord
<1> QED
  BY <1>1, <1>2, <1>3, <1>4, <1>5, <1>6, <1>7, <1>8, <1>9, <1>10, <1>11, <1>12, <1>13, <1>14,
     <1>15, <1>16 DEF SectionStep

\* The answer to a call: for App, for a section, for VaultContext, or an error.
LEMMA SeatedAnswers ==
  ASSUME Seated, Numbered, Placed, Whole(settings), NEW c \in calls, 
         Serve(c) \/ Answered(c) \/ Fails(c)
  PROVE  Seated'
<1> USE DEF preAuth, notices, person
<1>1. /\ c.id \in Secret /\ c.id # None /\ c.kind \in Kinds /\ c.on \in BOOLEAN
      /\ settings \in SettingsRecord
  BY NoneAssumption DEF Numbered, Request, Secret, Whole
<1>2. CASE Serve(c)
  BY <1>2, SeatedStay DEF Serve
<1>3. CASE KeyHandedUp(c) /\ UNCHANGED asked
  BY <1>1, <1>3 DEF KeyHandedUp, Seated, Shows, Inside, RecoverRecord, Blank
<1>4. CASE SectionTold(c) /\ UNCHANGED asked
  <2>1. c.on => settings' = Told(c) /\ Told(c).open = settings.open
    BY <1>1, <1>4 DEF SectionTold, Told, SettingsRecord
  <2> QED
    BY <1>4, <2>1, SeatedStay DEF SectionTold
<1>5. CASE PasswordChanged(c) /\ UNCHANGED asked
  <2>1. UNCHANGED <<asked, authScreen, slot, kitTick, joining, recover>>
    BY <1>5 DEF PasswordChanged
  <2>2. CASE who = None
    BY <1>5, <2>1, <2>2, SeatedStay DEF PasswordChanged
  <2>3. CASE who # None
    <3>1. who' = None /\ entered' = FALSE /\ ~settings'.open
      BY <1>5, <2>3 DEF PasswordChanged, LockNow, SectionsUnmount, Closed
    <3> QED
      BY <2>1, <3>1 DEF Seated, Shows, Inside, RecoverRecord
  <2> QED
    BY <2>2, <2>3
<1>6. CASE Fails(c)
  <2>1. settings'.open = settings.open
    BY <1>1, <1>6 DEF Fails, Failed, SettingsRecord
  <2>2. /\ UNCHANGED <<who, entered, asked, authScreen, slot, kitTick>>
        /\ joining' = (joining /\ ~(c.kind = "signup" /\ c.on))
    BY <1>6 DEF Fails
  <2>3. recover' \in RecoverRecord /\ recover'.acct = recover.acct
        /\ (recover' # Blank => recover # Blank)
    <3>1. c.kind = "recover" /\ c.on => recover.phase = "working"
      BY DEF Placed, CallPlaced
    <3> QED
      BY <1>6, <3>1 DEF Fails, Seated, RecoverRecord, Blank
  <2> QED
    BY <2>1, <2>2, <2>3 DEF Seated, Shows, Inside
<1> QED
  BY <1>2, <1>3, <1>4, <1>5, <1>6 DEF Answered

\* Answers leave the sections of Settings whole.
LEMMA WholeAnswers ==
  ASSUME Numbered, Placed, InForce, Whole(settings), NEW c \in calls, 
         Serve(c) \/ Answered(c) \/ Fails(c)
  PROVE  Whole(settings')
<1>1. /\ c.id \in Secret /\ c.id # None /\ c.kind \in Kinds /\ c.on \in BOOLEAN
      /\ settings \in SettingsRecord
  BY NoneAssumption DEF Numbered, Request, Secret, Whole
<1>2. CASE Serve(c) \/ KeyHandedUp(c) \/ PasswordChanged(c)
  <2>1. Whole([Closed EXCEPT !.kdf = "none"])
    BY DEF Whole, Closed, SettingsRecord
  <2>2. settings' = settings \/ settings' = [Closed EXCEPT !.kdf = "none"]
    BY <1>2 DEF Serve, KeyHandedUp, PasswordChanged, LockNow, SectionsUnmount
  <2> QED
    BY <2>1, <2>2
<1>3. CASE SectionTold(c) /\ c.stage = "ok"
  <2>1. SUFFICES ASSUME c.on PROVE Whole(settings')
    BY <1>3 DEF SectionTold
  <2>2. settings' = Told(c) /\ settings.open /\ c.kind \in Sections
    BY <1>3, <2>1 DEF SectionTold, Placed, CallPlaced, Sections
  <2>3. CASE c.kind = "regenerate"
    <3>1. settings.kit = "working"
      BY <2>1, <2>3 DEF Placed, CallPlaced
    <3> QED
      BY <1>1, <2>2, <2>3, <3>1 DEF Told, Whole, SettingsRecord
  <2>4. CASE c.kind = "upgrade"
    BY <1>1, <2>2, <2>4 DEF Told, Whole, SettingsRecord
  <2>5. CASE c.kind = "confirm"
    <3>1. settings.two \in {"scanning", "off"}
      BY <1>3, <2>1, <2>5 DEF InForce, Ready
    <3> QED
      BY <1>1, <2>2, <2>5, <3>1 DEF Told, Whole, SettingsRecord
  <2>6. CASE c.kind = "disable"
    <3>1. settings.two \in {"on", "disabling"}
      BY <1>3, <2>1, <2>6 DEF InForce, Ready
    <3> QED
      BY <1>1, <2>2, <2>6, <3>1 DEF Told, Whole, SettingsRecord
  <2> QED
    BY <1>3, <2>3, <2>4, <2>5, <2>6 DEF SectionTold
<1>4. CASE Fails(c)
  <2>1. SUFFICES ASSUME c.on, c.kind \in Sections PROVE Whole(settings')
    BY <1>1, <1>4 DEF Fails, Failed, Sections, Kinds, Writes
  <2>2. settings' = Failed(c) /\ settings.open
    BY <1>4, <2>1 DEF Fails, Placed, CallPlaced
  <2>3. CASE c.kind = "regenerate"
    <3>1. settings.kit = "working"
      BY <2>1, <2>3 DEF Placed, CallPlaced
    <3> QED
      BY <1>1, <2>2, <2>3, <3>1 DEF Failed, Whole, SettingsRecord
  <2>4. CASE c.kind = "upgrade"
    BY <1>1, <2>2, <2>4 DEF Failed, Whole, SettingsRecord
  <2>5. CASE c.kind = "password"
    <3>1. settings' = [settings EXCEPT !.changing = FALSE]
      BY <2>2, <2>5 DEF Failed, Writes
    <3> QED
      BY <1>1, <2>2, <3>1 DEF Whole, SettingsRecord
  <2>6. CASE c.kind \in Writes
    BY <1>1, <2>2, <2>6 DEF Failed, Whole, SettingsRecord, Writes
  <2> QED
    BY <2>1, <2>3, <2>4, <2>5, <2>6 DEF Sections, Writes
<1> QED
  BY <1>2, <1>3, <1>4 DEF Answered

\* The notices: of the lock that is over, until the timer or the demo is through.
LEMMA ExplainedStay ==
  ASSUME Explained, UNCHANGED <<who, notices>>
  PROVE  Explained'
BY DEF Explained, notices

LEMMA ExplainedLock ==
  ASSUME Explained, Seated, Kept, NEW cs, LockNow(cs), who # None, byDemo' \in {byDemo, FALSE},
         clearing' = clearing, session' \in {session, lockNo + 1}, postLock' \in {postLock, lockNo + 1},
         byDemo' # byDemo => postLock' = lockNo + 1
  PROVE  Explained'
<1>1. who' = None /\ lockNo' = lockNo + 1
  BY DEF LockNow
<1>2. lockNo \in Nat /\ lockNo < MaxLocks /\ MaxLocks \in Nat
  BY BoundAssumption DEF Explained
<1>3. lockNo' \in 0 .. MaxLocks /\ postLock' \in 0 .. lockNo' /\ session' \in 0 .. lockNo'
  BY <1>1, <1>2 DEF Explained
<1>4. session' \in {0, lockNo'}
  BY <1>1, <1>2 DEF Explained
<1>5. ~clearing' /\ ~byDemo' => postLock' \in {0, lockNo'}
  BY <1>1, <1>2 DEF Explained
<1> QED
  BY <1>1, <1>3, <1>4, <1>5 DEF Explained

LEMMA ExplainedStep ==
  ASSUME Explained, Seated, Kept, [Next]_vars
  PROVE  Explained'
<1> USE DEF person
<1>1. CASE UNCHANGED <<who, notices>>
  BY <1>1, ExplainedStay
<1>2. ASSUME NEW a \in Account, Opened(a) PROVE Explained'
  <2>1. /\ who = None /\ who' = a /\ a # None /\ lockNo < MaxLocks
        /\ session' = 0 /\ clearing' = (clearing \/ asked = "form")
        /\ byDemo' = (byDemo \/ (asked = "demo" /\ postLock # 0)) /\ asked \in {"form", "demo"}
        /\ UNCHANGED <<lockNo, postLock>>
    BY <1>2, NoneAssumption DEF Opened, Seated, ClearsNotice
  <2>2. /\ lockNo' \in 0 .. MaxLocks /\ postLock' \in 0 .. lockNo' /\ session' \in 0 .. lockNo'
        /\ clearing' \in BOOLEAN /\ byDemo' \in BOOLEAN
    BY <2>1 DEF Explained
  <2>3. ~clearing' /\ ~byDemo' => postLock' = 0
    BY <2>1
  <2> QED
    BY <2>1, <2>2, <2>3 DEF Explained
<1>3. CASE OnUnlocked
  <2>1. /\ clearing' = FALSE /\ byDemo' = FALSE /\ postLock' = 0 /\ UNCHANGED <<who, lockNo, session>>
    BY <1>3 DEF OnUnlocked
  <2>2. lockNo' \in 0 .. MaxLocks /\ postLock' \in 0 .. lockNo' /\ session' \in 0 .. lockNo'
    BY <2>1 DEF Explained
  <2> QED
    BY <2>1, <2>2 DEF Explained
<1>4. CASE Lock
  BY <1>4, ExplainedLock DEF Lock
<1>5. CASE SessionLost
  BY <1>5, ExplainedLock DEF SessionLost
<1>6. ASSUME NEW c \in calls, PasswordChanged(c) PROVE Explained'
  <2>1. CASE who # None
    BY <1>6, <2>1, ExplainedLock DEF PasswordChanged, Explained
  <2>2. CASE who = None
    <3>1. /\ postLock' = lockNo /\ byDemo' = FALSE /\ UNCHANGED <<who, lockNo, session, clearing>>
      BY <1>6, <2>2 DEF PasswordChanged
    <3>2. lockNo' \in 0 .. MaxLocks /\ postLock' \in 0 .. lockNo' /\ session' \in 0 .. lockNo'
      BY <3>1 DEF Explained
    <3> QED
      BY <2>2, <3>1, <3>2 DEF Explained
  <2> QED
    BY <2>1, <2>2
<1>7. CASE SectionStep
  BY <1>7, <1>1 DEF SectionStep, IssueKit, TickKey, KitDone, UpgradeKdf, ChangePassword,
     ProbeServed, ProbeAnswered, ProbeFails, Recheck, Begin, ConfirmFactor, AskTurnOff, TurnOff,
     Cancel, TickCodes, CodesDone
<1>8. ASSUME NEW c \in calls, Serve(c) \/ Answered(c) \/ Fails(c) PROVE Explained'
  BY <1>1, <1>6, <1>8 DEF Serve, Answered, KeyHandedUp, SectionTold, Fails
<1>9. CASE \/ \E how \in {"form", "demo"} : Ask(how)
           \/ AskFails \/ Enter \/ OpenSettings \/ LeaveSettings
           \/ \E to \in {"signup", "recover"} : Go(to)
           \/ GoBack
           \/ \E a \in Account : SignUp(a) \/ FindAndTryKey(a)
           \/ Finish \/ TickKit \/ Continue
  BY <1>1, <1>9 DEF Ask, AskFails, Enter, OpenSettings, LeaveSettings, Go, GoBack, SignUp,
     FindAndTryKey, Finish, TickKit, Continue
<1>10. CASE UNCHANGED vars
  BY <1>1, <1>10 DEF vars
<1>11. CASE SessionLostLate
  <2>1. who = None /\ session' = lockNo /\ UNCHANGED <<who, lockNo, postLock, clearing, byDemo>>
    BY <1>11 DEF SessionLostLate
  <2>2. lockNo' \in 0 .. MaxLocks /\ postLock' \in 0 .. lockNo' /\ session' \in 0 .. lockNo'
    BY <2>1 DEF Explained
  <2> QED
    BY <2>1, <2>2 DEF Explained
<1> QED
  BY <1>2, <1>3, <1>4, <1>5, <1>7, <1>8, <1>9, <1>10, <1>11 DEF Next, SectionStep

\* What is saved stays saved, and what was let go is a secret.
LEMMA DropsFacts ==
  ASSUME Kept, NEW s, s \subseteq Secret \union {None}, Drops(s)
  PROVE  gone' \subseteq Secret /\ gone \subseteq gone' /\ s \subseteq saved \union gone' \union {None}
BY DEF Drops, Kept

LEMMA UnmountDrops ==
  ASSUME Kept, Numbered, Whole(settings), NEW k, NEW cs, SectionsUnmount(k, cs)
  PROVE  /\ gone' \subseteq Secret /\ gone \subseteq gone'
         /\ {settings.key, settings.codes} \subseteq saved \union gone' \union {None}
         /\ \A c \in calls : c.on /\ c.kind \in {"regenerate", "confirm"} => c.id \in saved \union gone'
<1> DEFINE s == {settings.key, settings.codes} \union {c.id : c \in Here({"regenerate", "confirm"})}
<1>1. \A c \in calls : c.id \in Secret /\ c.id # None
  BY NoneAssumption DEF Numbered, Request, Secret
<1>2. s \subseteq Secret \union {None} /\ Drops(s)
  BY <1>1 DEF SectionsUnmount, Here, Whole, SettingsRecord
<1>3. \A c \in calls : c.on /\ c.kind \in {"regenerate", "confirm"} => c.id \in s
  BY DEF Here
<1> HIDE DEF s
<1>4. gone' \subseteq Secret /\ gone \subseteq gone' /\ s \subseteq saved \union gone' \union {None}
  BY <1>2, DropsFacts
<1>5. {settings.key, settings.codes} \subseteq s
  BY DEF s
<1> QED
  BY <1>1, <1>3, <1>4, <1>5

LEMMA Growing ==
  ASSUME Kept, Seated, Numbered, Whole(settings), [Next]_vars
  PROVE  /\ saved' \subseteq Secret /\ saved \subseteq saved'
         /\ gone' \subseteq Secret /\ gone \subseteq gone'
<1>1. CASE UNCHANGED <<saved, gone>>
  BY <1>1 DEF Kept
<1>2. CASE TickKit \/ TickKey \/ TickCodes
  <2>1. /\ settings.kit = "done" => settings.key \in Secret
        /\ settings.two = "codes" => settings.codes \in Secret
        /\ slot # None => slot \in Secret
    BY DEF Whole, SettingsRecord, Seated
  <2> QED
    BY <1>2, <2>1 DEF TickKit, TickKey, TickCodes, Kept
<1>3. CASE Continue
  <2>1. \E s : s \subseteq Secret \union {None} /\ Drops(s)
    BY <1>3 DEF Continue, Seated
  <2> QED
    BY <1>3, <2>1, DropsFacts DEF Continue, Kept
<1>4. CASE Lock \/ SessionLost \/ LeaveSettings
  <2>1. saved' = saved /\ \E k, cs : SectionsUnmount(k, cs)
    BY <1>4 DEF Lock, SessionLost, LeaveSettings, LockNow
  <2> QED
    BY <2>1, UnmountDrops DEF Kept
<1>5. ASSUME NEW c \in calls, Serve(c) \/ Answered(c) \/ Fails(c)
      PROVE  /\ saved' \subseteq Secret /\ saved \subseteq saved'
             /\ gone' \subseteq Secret /\ gone \subseteq gone'
  <2>1. c.id \in Secret
    BY DEF Numbered, Request, Secret
  <2>2. CASE Serve(c)
    BY <1>1, <2>2 DEF Serve, person
  <2>3. CASE KeyHandedUp(c)
    <3>1. Drops({slot}) /\ saved' = saved
      BY <2>3 DEF KeyHandedUp
    <3> QED
      BY <3>1, DropsFacts DEF Seated, Kept
  <2>4. CASE SectionTold(c)
    <3>1. saved' = saved /\ \E s \in {{settings.codes}, {}} : Drops(s)
      BY <2>4 DEF SectionTold
    <3>2. settings.codes \in Secret \union {None}
      BY DEF Whole, SettingsRecord
    <3> QED
      BY <3>1, <3>2, DropsFacts DEF Kept
  <2>5. CASE PasswordChanged(c)
    <3>1. saved' = saved /\ (gone' = gone \/ \E k, cs : SectionsUnmount(k, cs))
      BY <2>5 DEF PasswordChanged, LockNow
    <3> QED
      BY <3>1, UnmountDrops DEF Kept
  <2>6. CASE Fails(c)
    <3>1. saved' = saved /\ \E s \in {{c.id}, {}} : Drops(s)
      BY <2>6 DEF Fails
    <3> QED
      BY <2>1, <3>1, DropsFacts DEF Kept
  <2> QED
    BY <1>5, <2>2, <2>3, <2>4, <2>5, <2>6 DEF Answered
<1>6. CASE SectionStep
  BY <1>1, <1>2, <1>6 DEF SectionStep, IssueKit, KitDone, UpgradeKdf, ChangePassword,
     ProbeServed, ProbeAnswered, ProbeFails, Recheck, Begin, ConfirmFactor, AskTurnOff, TurnOff,
     Cancel, CodesDone, person
<1>7. CASE \/ \E how \in {"form", "demo"} : Ask(how)
           \/ \E a \in Account : Opened(a)
           \/ AskFails \/ Enter \/ OnUnlocked \/ SessionLostLate \/ OpenSettings
           \/ \E to \in {"signup", "recover"} : Go(to)
           \/ GoBack
           \/ \E a \in Account : SignUp(a) \/ FindAndTryKey(a)
           \/ Finish
  BY <1>1, <1>7 DEF Ask, AskFails, Opened, Enter, OnUnlocked, SessionLostLate, OpenSettings, Go, GoBack, SignUp,
     FindAndTryKey, Finish, person
<1>8. CASE UNCHANGED vars
  BY <1>1, <1>8 DEF vars, person
<1> QED
  BY <1>2, <1>3, <1>4, <1>5, <1>6, <1>7, <1>8 DEF Next, SectionStep

\* What a step does to the accounts: nothing, unless it serves a request, answers a
\* check, or enrols the account that is open.
LEMMA ServerStep ==
  ASSUME [Next]_vars
  PROVE  \/ UNCHANGED <<kit, factor, begun, outdated, unheard>>
         \/ ProbeServed
         \/ Begin
         \/ \E c \in calls : Serve(c)
         \/ UNCHANGED server /\ \E c \in calls : unheard' \in {unheard, unheard \union {c.acct}}
<1> USE DEF server
<1>1. CASE SectionStep
  BY <1>1 DEF SectionStep, IssueKit, TickKey, KitDone, UpgradeKdf, ChangePassword,
     ProbeAnswered, ProbeFails, Recheck, ConfirmFactor, AskTurnOff, TurnOff,
     Cancel, TickCodes, CodesDone
<1>2. CASE \/ \E how \in {"form", "demo"} : Ask(how)
           \/ \E a \in Account : Opened(a)
           \/ AskFails \/ Enter \/ OnUnlocked \/ SessionLostLate \/ OpenSettings
           \/ \E to \in {"signup", "recover"} : Go(to)
           \/ GoBack
           \/ \E a \in Account : SignUp(a) \/ FindAndTryKey(a)
           \/ Finish \/ Lock \/ SessionLost \/ LeaveSettings \/ TickKit \/ Continue
  BY <1>2 DEF Ask, AskFails, Opened, Enter, OnUnlocked, SessionLostLate, OpenSettings, Go, GoBack, SignUp,
     FindAndTryKey, Finish, Lock, SessionLost, LeaveSettings, TickKit, Continue
<1>3. ASSUME NEW c \in calls, Serve(c) \/ Answered(c) \/ Fails(c)
      PROVE  \/ Serve(c)
             \/ UNCHANGED server /\ unheard' \in {unheard, unheard \union {c.acct}}
  BY <1>3 DEF Answered, Fails, KeyHandedUp, SectionTold, PasswordChanged
<1>4. CASE UNCHANGED vars
  BY <1>4 DEF vars
<1> QED
  BY <1>1, <1>2, <1>3, <1>4 DEF Next, SectionStep

-----------------------------------------------------------------------------
(* The requests in flight.                                                 *)

\* What becomes of a call while it is in flight: its stage moves on once, it may lose
\* the screen that waits for it, and a code of an enrolment that is over works no more.
Descends(c, d) ==
  /\ c.id = d.id /\ c.kind = d.kind /\ c.acct = d.acct
  /\ c.key = d.key \/ (c.key = None /\ d.kind = "confirm")
  /\ c.stage = d.stage \/ d.stage = "sent"
  /\ c.on => d.on

\* A request that is sent.
Fresh(c) ==
  /\ c.id = sent + 1 /\ c.stage = "sent" /\ c.on
  /\ c.kind = "disable" => who \in Account /\ c.key = factor[who]

\* calls' comes from cs, a part of calls, each call in it once.
From(cs) == /\ cs \subseteq calls /\ calls' \subseteq Request /\ Unique(calls')
            /\ \A c \in calls' : \E d \in cs : Descends(c, d)

CallsFrom ==
  \/ sent' = sent /\ From(calls)
  \/ /\ sent < MaxCalls /\ sent' = sent + 1
     /\ \E c \in Request : calls' = calls \union {c} /\ Fresh(c)

LEMMA FromLess ==
  ASSUME Numbered, calls' \subseteq calls
  PROVE  From(calls)
BY DEF Numbered, From, Unique, Descends

LEMMA FromLeft ==
  ASSUME Numbered, NEW cs, cs \subseteq calls, NEW K, calls' = LeftBehind(cs, K)
  PROVE  From(calls)
<1>1. cs \subseteq Request /\ Unique(cs)
  BY DEF Numbered, Unique
<1>2. calls' \subseteq Request /\ Unique(calls')
  BY <1>1, LeftBehindFacts
<1>3. \A c \in calls' : \E d \in cs : Same(c, d) /\ (c.on <=> d.on /\ d.kind \notin K)
  BY <1>1, LeftBehindFacts
<1>4. \A c \in calls' : \E d \in calls : Descends(c, d)
  BY <1>3 DEF Same, Descends
<1> QED
  BY <1>2, <1>4 DEF From

LEMMA FromStage ==
  ASSUME Numbered, NEW x \in calls, NEW s \in {"ok", "no"}, x.stage = "sent", Stage(x, s)
  PROVE  /\ From(calls)
         /\ \A c \in calls' : c.id = x.id => c.stage = s
<1> DEFINE y == [x EXCEPT !.stage = s]
<1>1. y \in Request /\ Descends(y, x) /\ y.id = x.id /\ y.stage = s
  BY DEF Numbered, Request, Descends
<1>2. calls' = (calls \ {x}) \union {y}
  BY DEF Stage
<1> HIDE DEF y
<1>3. Unique(calls')
  BY <1>1, <1>2 DEF Numbered, Unique
<1>4. \A c \in calls' : \E d \in calls : Descends(c, d)
  BY <1>1, <1>2 DEF Descends
<1>5. \A c \in calls' : c.id = x.id => c.stage = s
  BY <1>1, <1>2 DEF Numbered
<1> QED
  BY <1>1, <1>2, <1>3, <1>4, <1>5 DEF From, Numbered

LEMMA FromBegin ==
  ASSUME Numbered, Begin
  PROVE  From(calls)
<1> DEFINE Spent(c) == IF c.kind = "confirm" /\ c.acct = who THEN [c EXCEPT !.key = None] ELSE c
<1>1. \A d \in calls : Spent(d) \in Request /\ Descends(Spent(d), d)
  BY DEF Numbered, Request, Descends
<1>2. calls' = {Spent(c) : c \in calls}
  BY DEF Begin
<1>3. Unique(calls')
  <2>1. SUFFICES ASSUME NEW c \in calls', NEW d \in calls', c.id = d.id PROVE c = d
    BY DEF Unique
  <2>2. PICK x \in calls, y \in calls : c = Spent(x) /\ d = Spent(y)
    BY <1>2
  <2>3. x = y
    BY <1>1, <2>1, <2>2 DEF Numbered, Descends
  <2> QED
    BY <2>2, <2>3
<1> HIDE DEF Spent
<1> QED
  BY <1>1, <1>2, <1>3 DEF From

LEMMA SubmitFresh ==
  ASSUME Numbered, NEW k \in Kinds, NEW a \in Account, NEW x \in Secret \union {None}, Submit(k, a, x),
         k = "disable" => a = who /\ x = factor[who]
  PROVE  CallsFrom
<1>1. PICK c \in Request : /\ calls' = calls \union {c}
                           /\ c = [id |-> sent + 1, kind |-> k, acct |-> a, key |-> x,
                                   stage |-> "sent", on |-> TRUE]
  BY SubmitFacts
<1>2. Fresh(c)
  BY <1>1 DEF Fresh
<1> QED
  BY <1>1, <1>2, SubmitFacts DEF CallsFrom

LEMMA CallsStep ==
  ASSUME Seated, Kept, Whole(settings), Numbered, [Next]_vars
  PROVE  CallsFrom
<1>1. CASE UNCHANGED <<calls, sent>>
  BY <1>1, FromLess DEF CallsFrom
<1>2. settings.open => who \in Account /\ factor[who] \in Secret \union {None} /\ who \in Secret
  BY DEF Seated, Inside, Kept, Secret
<1>3. ASSUME NEW a \in Account, SignUp(a) PROVE CallsFrom
  BY <1>3, SubmitFresh DEF SignUp, Kinds
<1>4. CASE Finish
  <2>1. recover.acct \in Account /\ recover.key \in Secret \union {None}
    BY <1>4 DEF Finish, Seated, Blank, RecoverRecord
  <2> QED
    BY <1>4, <2>1, SubmitFresh DEF Finish, Kinds
<1>5. CASE IssueKit \/ UpgradeKdf \/ ChangePassword
  BY <1>2, <1>5, SubmitFresh DEF IssueKit, UpgradeKdf, ChangePassword, Kinds
<1>6. CASE ConfirmFactor \/ TurnOff
  BY <1>2, <1>6, SubmitFresh DEF ConfirmFactor, TurnOff, Kinds
<1>7. CASE Begin
  BY <1>7, FromBegin DEF Begin, CallsFrom
<1>8. CASE Enter \/ GoBack \/ Lock \/ SessionLost \/ LeaveSettings
  <2>1. sent' = sent /\ \E K : calls' = LeftBehind(calls, K)
    BY <1>8 DEF Enter, GoBack, Lock, SessionLost, LeaveSettings, LockNow, SectionsUnmount
  <2> QED
    BY <2>1, FromLeft DEF CallsFrom
<1>9. ASSUME NEW c \in calls, Serve(c) \/ Answered(c) \/ Fails(c) PROVE CallsFrom
  <2>1. CASE Serve(c)
    BY <2>1, FromStage DEF Serve, CallsFrom
  <2>2. CASE Answered(c) \/ Fails(c)
    <3>1. sent' = sent /\ (calls' \subseteq calls \/ \E K : calls' = LeftBehind(calls \ {c}, K))
      BY <2>2 DEF Answered, KeyHandedUp, SectionTold, PasswordChanged, LockNow, SectionsUnmount, Fails
    <3> QED
      BY <3>1, FromLeft, FromLess DEF CallsFrom
  <2> QED
    BY <1>9, <2>1, <2>2
<1>10. CASE SectionStep
  BY <1>1, <1>5, <1>6, <1>7, <1>10 DEF SectionStep, TickKey, KitDone,
     ProbeServed, ProbeAnswered, ProbeFails, Recheck, AskTurnOff, Cancel, TickCodes, CodesDone
<1>11. CASE \/ \E how \in {"form", "demo"} : Ask(how)
            \/ \E a \in Account : Opened(a)
            \/ AskFails \/ OnUnlocked \/ SessionLostLate \/ OpenSettings
            \/ \E to \in {"signup", "recover"} : Go(to)
            \/ \E a \in Account : FindAndTryKey(a)
            \/ TickKit \/ Continue
  BY <1>1, <1>11 DEF Ask, AskFails, Opened, OnUnlocked, SessionLostLate, OpenSettings, Go, FindAndTryKey, TickKit,
     Continue
<1>12. CASE UNCHANGED vars
  BY <1>1, <1>12 DEF vars
<1> QED
  BY <1>3, <1>4, <1>8, <1>9, <1>10, <1>11, <1>12 DEF Next, SectionStep

LEMMA NumberedStep ==
  ASSUME Numbered, CallsFrom
  PROVE  Numbered'
<1>1. sent \in Nat /\ MaxCalls \in Nat
  BY BoundAssumption DEF Numbered
<1>2. CASE sent' = sent /\ From(calls)
  BY <1>2 DEF From, Numbered, Unique, Descends
<1>3. ASSUME sent < MaxCalls, sent' = sent + 1, NEW c \in Request, calls' = calls \union {c}, Fresh(c)
      PROVE  Numbered'
  <2>1. \A d \in calls : d.id \in Nat /\ d.id <= sent
    BY DEF Numbered, Request
  <2>2. c.id = sent + 1
    BY <1>3 DEF Fresh
  <2>3. \A d \in calls' : d.id <= sent'
    BY <1>1, <1>3, <2>1, <2>2
  <2>4. \A d, e \in calls' : d.id = e.id => d = e
    BY <1>1, <1>3, <2>1, <2>2 DEF Numbered
  <2> QED
    BY <1>1, <1>3, <2>3, <2>4 DEF Numbered
<1> QED
  BY <1>2, <1>3 DEF CallsFrom

-----------------------------------------------------------------------------
(* The accounts.                                                           *)

LEMMA AcceptedFacts ==
  ASSUME Kept, Numbered, NEW c \in calls, Accepted(c)
  PROVE  /\ kit' \in [Account -> Secret \union {None}] /\ factor' \in [Account -> Secret \union {None}]
         /\ begun' \subseteq Account /\ outdated' \subseteq Account
         /\ \A a \in Account : /\ kit'[a] = kit[a] \/ (kit'[a] = c.id /\ c.kind \in OneTime)
                               /\ a # c.acct => factor'[a] = factor[a] /\ (a \in begun' <=> a \in begun)
         /\ \/ c.kind \notin Writes /\ factor' = factor /\ begun' = begun
            \/ /\ c.kind = "confirm" /\ factor[c.acct] = None /\ factor'[c.acct] = c.id /\ begun' = begun
               /\ c.acct \in begun /\ c.key # None
            \/ /\ c.kind = "disable" /\ factor[c.acct] # None /\ factor[c.acct] = c.key
               /\ factor'[c.acct] = None /\ c.acct \notin begun'
<1>1. c.acct \in Account /\ c.id \in Secret
  BY DEF Numbered, Request, Secret
<1>2. CASE c.kind \in {"signup", "recover", "regenerate"}
  BY <1>1, <1>2 DEF Accepted, Kept, Writes, OneTime
<1>3. CASE c.kind \in {"upgrade", "password"}
  BY <1>1, <1>3 DEF Accepted, Kept, Writes
<1>4. CASE c.kind = "confirm"
  BY <1>1, <1>4 DEF Accepted, Kept, Writes, OneTime
<1>5. CASE c.kind = "disable"
  BY <1>1, <1>5 DEF Accepted, Kept, Writes
<1> QED
  BY <1>2, <1>3, <1>4, <1>5 DEF Accepted

LEMMA KeptStep ==
  ASSUME Kept, Seated, Numbered, Whole(settings), [Next]_vars
  PROVE  Kept'
<1>1. /\ kit' \in [Account -> Secret \union {None}] /\ factor' \in [Account -> Secret \union {None}]
      /\ begun' \subseteq Account /\ outdated' \subseteq Account /\ unheard' \subseteq Account
  <2>1. \A c \in calls : c.acct \in Account
    BY DEF Numbered, Request
  <2>2. CASE ProbeServed
    BY <2>2 DEF ProbeServed, Kept, server
  <2>3. CASE Begin
    BY <2>3 DEF Begin, Kept, Seated, Inside
  <2>4. ASSUME NEW c \in calls, Serve(c)
        PROVE  /\ kit' \in [Account -> Secret \union {None}] /\ factor' \in [Account -> Secret \union {None}]
               /\ begun' \subseteq Account /\ outdated' \subseteq Account /\ unheard' \subseteq Account
    <3>1. unheard' = unheard /\ (Accepted(c) \/ UNCHANGED server)
      BY <2>4 DEF Serve
    <3> QED
      BY <3>1, AcceptedFacts DEF Kept, server
  <2>5. CASE UNCHANGED server /\ \E c \in calls : unheard' \in {unheard, unheard \union {c.acct}}
    BY <2>1, <2>5 DEF Kept, server
  <2>6. CASE UNCHANGED <<kit, factor, begun, outdated, unheard>>
    BY <2>6 DEF Kept
  <2> QED
    BY <2>2, <2>3, <2>4, <2>5, <2>6, ServerStep
<1> QED
  BY <1>1, Growing DEF Kept

\* A request the server grants, and one it refuses.
Granted(c) == c.stage = "sent" /\ Accepted(c) /\ Stage(c, "ok")

LEMMA ServeSplit ==
  ASSUME NEW c \in calls, Serve(c)
  PROVE  /\ c.stage = "sent"
         /\ Granted(c) \/ (Stage(c, "no") /\ UNCHANGED server)
         /\ UNCHANGED <<who, entered, asked, preAuth, settings, sent, unheard, notices, person>>
BY DEF Serve, Granted

LEMMA UnmadeStep ==
  ASSUME Kept, Seated, Numbered, Whole(settings), Unmade, [Next]_vars
  PROVE  Unmade'
<1>1. sent \in Nat /\ sent' \in {sent, sent + 1} /\ CallsFrom
  BY CallsStep DEF CallsFrom, Numbered
<1>2. \A c \in calls : c.id \in Nat /\ c.id \in 1 .. sent
  BY <1>1 DEF Numbered, Request
<1>3. ASSUME NEW a \in Account
      PROVE  /\ kit'[a] = kit[a] \/ \E c \in calls : Granted(c) /\ kit'[a] = c.id
             /\ factor'[a] \in {factor[a], None} \/ \E c \in calls : Granted(c) /\ factor'[a] = c.id
  <2>1. CASE UNCHANGED <<kit, factor>>
    BY <2>1
  <2>2. ASSUME NEW c \in calls, Granted(c)
        PROVE  /\ kit'[a] = kit[a] \/ kit'[a] = c.id
               /\ factor'[a] \in {factor[a], None} \/ factor'[a] = c.id
    BY <2>2, AcceptedFacts DEF Granted
  <2> QED
    BY <2>1, <2>2, ServerStep, ServeSplit DEF ProbeServed, Begin, server
<1>4. \A c \in calls', x \in calls : Granted(x) /\ c.id = x.id => c.stage = "ok"
  BY FromStage DEF Granted
<1>5. \A a \in Account : kit'[a] \in Account \union {None} \union 1 .. sent'
                         /\ factor'[a] \in {None} \union 1 .. sent'
  BY <1>1, <1>2, <1>3 DEF Unmade
<1>6. \A c \in calls', a \in Account : c.stage # "ok" => kit'[a] # c.id /\ factor'[a] # c.id
  <2>1. SUFFICES ASSUME NEW c \in calls', NEW a \in Account, c.stage # "ok"
                 PROVE  kit'[a] # c.id /\ factor'[a] # c.id
    OBVIOUS
  <2>2. CASE \E d \in calls : Descends(c, d)
    <3>1. PICK d \in calls : Descends(c, d)
      BY <2>2
    <3>2. c.id = d.id /\ d.stage # "ok" /\ d.id # None
      BY <1>2, <2>1, <3>1, NoneAssumption DEF Descends
    <3> QED
      BY <1>3, <1>4, <2>1, <3>2 DEF Unmade
  <2>3. CASE Fresh(c)
    BY <1>1, <1>2, <1>3, <2>3, NoneAssumption, SecretAssumption DEF Unmade, Fresh
  <2> QED
    BY <1>1, <2>2, <2>3 DEF CallsFrom, From, Descends
<1>7. \A d \in calls' : d.kind = "disable" =>
        d.key \in {None} \union 1 .. sent' /\ \A c \in calls' : c.stage # "ok" => d.key # c.id
  <2>1. SUFFICES ASSUME NEW d \in calls', d.kind = "disable"
                 PROVE  /\ d.key \in {None} \union 1 .. sent'
                        /\ \A c \in calls' : c.stage # "ok" => d.key # c.id
    OBVIOUS
  <2>2. \A c \in calls' : (\E x \in calls : Descends(c, x)) \/ Fresh(c)
    BY <1>1 DEF CallsFrom, From, Descends
  <2>3. /\ d.key \in {None} \union 1 .. sent
        /\ \A x \in calls : x.stage # "ok" => d.key # x.id
    BY <2>1, <2>2 DEF Unmade, Fresh, Descends
  <2>4. \A c \in calls' : c.stage # "ok" => d.key # c.id
    <3>1. SUFFICES ASSUME NEW c \in calls', c.stage # "ok" PROVE d.key # c.id
      OBVIOUS
    <3>2. CASE \E x \in calls : Descends(c, x)
      BY <2>3, <3>1, <3>2 DEF Descends
    <3>3. CASE Fresh(c)
      BY <1>1, <2>3, <3>3, NoneAssumption DEF Fresh
    <3> QED
      BY <2>2, <3>2, <3>3
  <2> QED
    BY <1>1, <2>3, <2>4
<1> QED
  BY <1>5, <1>6, <1>7 DEF Unmade

-----------------------------------------------------------------------------
(* Where a call finds the screen that waits for it.                        *)

LEMMA PlacedFrom ==
  ASSUME Numbered, Placed, NEW cs, From(cs), \A x \in cs : x.on => CallPlaced(x)'
  PROVE  Placed'
<1>1. ASSUME NEW c \in calls' PROVE CallPlaced(c)'
  <2>1. PICK x \in cs : Descends(c, x)
    BY DEF From
  <2> QED
    BY <2>1 DEF Descends, CallPlaced
<1>2. ASSUME NEW c \in calls', NEW d \in calls', Waits(c), Waits(d), c.kind = d.kind PROVE c = d
  <2>1. PICK x \in calls, y \in calls : Descends(c, x) /\ Descends(d, y)
    BY DEF From
  <2>2. x = y
    BY <1>2, <2>1 DEF Descends, Waits, Placed
  <2> QED
    BY <2>1, <2>2 DEF Descends, From, Unique
<1> QED
  BY <1>1, <1>2 DEF Placed, Waits

LEMMA PlacedLeft ==
  ASSUME Numbered, Placed, NEW cs, cs \subseteq calls, NEW K, calls' = LeftBehind(cs, K),
         \A x \in cs : x.on /\ x.kind \notin K => CallPlaced(x)'
  PROVE  Placed'
<1>1. cs \subseteq Request /\ Unique(cs)
  BY DEF Numbered, Unique
<1>2. /\ Unique(calls')
      /\ \A c \in calls' : \E d \in cs : Same(c, d) /\ (c.on <=> d.on /\ d.kind \notin K)
  BY <1>1, LeftBehindFacts
<1>3. ASSUME NEW c \in calls' PROVE CallPlaced(c)'
  <2>1. PICK x \in cs : Same(c, x) /\ (c.on <=> x.on /\ x.kind \notin K)
    BY <1>2
  <2> QED
    BY <2>1 DEF Same, CallPlaced
<1>4. ASSUME NEW c \in calls', NEW d \in calls', Waits(c), Waits(d), c.kind = d.kind PROVE c = d
  <2>1. PICK x \in cs, y \in cs : /\ Same(c, x) /\ (c.on <=> x.on /\ x.kind \notin K)
                                  /\ Same(d, y) /\ (d.on <=> y.on /\ y.kind \notin K)
    BY <1>2
  <2>2. x = y
    BY <1>4, <2>1 DEF Same, Waits, Placed
  <2> QED
    BY <1>2, <2>1, <2>2 DEF Same, Unique
<1> QED
  BY <1>3, <1>4 DEF Placed, Waits

LEMMA PlacedFresh ==
  ASSUME Numbered, Placed, NEW k \in Kinds, NEW a \in Account, NEW v \in Secret \union {None},
         Submit(k, a, v),
         \A x \in calls : x.on => CallPlaced(x)' /\ (k \in {"signup", "recover", "regenerate"} => x.kind # k),
         k = "signup" => joining',
         k = "recover" => recover'.phase = "working",
         k \in Sections => settings'.open /\ a = who',
         k = "regenerate" => settings'.kit = "working",
         k \in Writes => settings'.two \notin {"loading", "unknown"}
  PROVE  Placed'
<1>1. PICK c \in Request : /\ calls' = calls \union {c}
                           /\ c = [id |-> sent + 1, kind |-> k, acct |-> a, key |-> v,
                                   stage |-> "sent", on |-> TRUE]
  BY SubmitFacts
<1>2. c.kind = k /\ c.acct = a
  BY <1>1
<1>3. CallPlaced(c)'
  BY <1>2 DEF CallPlaced
<1>4. \A x \in calls' : CallPlaced(x)'
  BY <1>1, <1>3 DEF CallPlaced
<1>5. ASSUME NEW x \in calls', NEW y \in calls', Waits(x), Waits(y), x.kind = y.kind PROVE x = y
  <2>1. CASE x \in calls /\ y \in calls
    BY <1>5, <2>1 DEF Placed
  <2>2. CASE x = c \/ y = c
    BY <1>1, <1>2, <1>5, <2>2 DEF Waits
  <2> QED
    BY <1>1, <2>1, <2>2
<1> QED
  BY <1>4, <1>5 DEF Placed, Waits

\* Nothing that calls look for on the screens changes.
LEMMA PlacedCalm ==
  ASSUME Numbered, Placed, NEW cs, From(cs), joining' = joining, recover' = recover, who' = who,
         settings'.open = settings.open, settings'.kit = settings.kit, settings'.two = settings.two
  PROVE  Placed'
<1>1. \A x \in cs : x.on => CallPlaced(x)'
  BY DEF Placed, CallPlaced, From
<1> QED
  BY <1>1, PlacedFrom

LEMMA FromCalls ==
  ASSUME Numbered, NEW cs, cs \subseteq calls, calls' = cs
  PROVE  From(cs)
BY DEF Numbered, From, Unique, Descends

LEMMA PlacedBefore ==
  ASSUME Seated, Kept, Numbered, Placed, NEW a,
         \/ a \in Account /\ (Opened(a) \/ SignUp(a) \/ FindAndTryKey(a))
         \/ Enter \/ GoBack \/ Finish
  PROVE  Placed'
<1> USE DEF preAuth
<1>1. CASE a \in Account /\ Opened(a)
  <2>1. ~settings.open /\ UNCHANGED <<calls, joining, recover>>
    BY <1>1 DEF Opened, Seated, Inside
  <2>2. \A x \in calls : x.on => CallPlaced(x)'
    BY <2>1 DEF Placed, CallPlaced, Sections, Writes
  <2> QED
    BY <2>1, <2>2, FromCalls, PlacedFrom
<1>2. CASE Enter \/ GoBack
  <2>1. calls' = LeftBehind(calls, {"signup", "recover"}) /\ UNCHANGED <<who, settings>>
    BY <1>2 DEF Enter, GoBack
  <2>2. \A x \in calls : x.on /\ x.kind \notin {"signup", "recover"} => CallPlaced(x)'
    BY <2>1 DEF Placed, CallPlaced
  <2> QED
    BY <2>1, <2>2, PlacedLeft
<1>3. CASE a \in Account /\ SignUp(a)
  <2>1. /\ ~joining /\ joining' /\ Submit("signup", a, None) /\ UNCHANGED <<who, settings, recover>>
    BY <1>3 DEF SignUp
  <2>2. \A x \in calls : x.on => CallPlaced(x)' /\ x.kind # "signup"
    BY <2>1 DEF Placed, CallPlaced
  <2>3. "signup" \in Kinds /\ "signup" \notin Sections /\ "signup" \notin Writes
    BY DEF Kinds, Sections, Writes
  <2> QED
    BY <1>3, <2>1, <2>2, <2>3, PlacedFresh
<1>4. CASE a \in Account /\ FindAndTryKey(a)
  <2>1. recover.phase = "email" /\ UNCHANGED <<calls, joining, who, settings>>
    BY <1>4 DEF FindAndTryKey
  <2>2. \A x \in calls : x.on => CallPlaced(x)'
    BY <2>1 DEF Placed, CallPlaced
  <2> QED
    BY <2>1, <2>2, FromCalls, PlacedFrom
<1>5. CASE Finish
  <2>1. /\ recover.phase = "password" /\ recover'.phase = "working"
        /\ Submit("recover", recover.acct, recover.key) /\ UNCHANGED <<joining, who, settings>>
        /\ recover.acct \in Account /\ recover.key \in Secret \union {None}
    BY <1>5 DEF Finish, Seated, RecoverRecord, Blank
  <2>2. \A x \in calls : x.on => CallPlaced(x)' /\ x.kind # "recover"
    BY <2>1 DEF Placed, CallPlaced
  <2>3. "recover" \in Kinds /\ "recover" \notin Sections /\ "recover" \notin Writes
    BY DEF Kinds, Sections, Writes
  <2> QED
    BY <2>1, <2>2, <2>3, PlacedFresh
<1> QED
  BY <1>1, <1>2, <1>3, <1>4, <1>5

LEMMA PlacedLeave ==
  ASSUME Seated, Numbered, Placed, Lock \/ SessionLost \/ LeaveSettings \/ OpenSettings
  PROVE  Placed'
<1> USE DEF preAuth
<1>1. CASE Lock \/ SessionLost \/ LeaveSettings
  <2>1. calls' = LeftBehind(calls, Sections) /\ UNCHANGED <<joining, recover>>
    BY <1>1 DEF Lock, SessionLost, LeaveSettings, LockNow, SectionsUnmount, Sections
  <2>2. \A x \in calls : x.on /\ x.kind \notin Sections => CallPlaced(x)'
    BY <2>1 DEF Placed, CallPlaced, Sections, Writes
  <2> QED
    BY <2>1, <2>2, PlacedLeft
<1>2. CASE OpenSettings
  <2>1. ~settings.open /\ UNCHANGED <<calls, joining, recover>>
    BY <1>2 DEF OpenSettings
  <2>2. \A x \in calls : x.on => CallPlaced(x)'
    BY <2>1 DEF Placed, CallPlaced, Sections, Writes
  <2> QED
    BY <2>1, <2>2, FromCalls, PlacedFrom
<1> QED
  BY <1>1, <1>2

LEMMA PlacedSections ==
  ASSUME Seated, Kept, Whole(settings), Numbered, Placed, SectionStep
  PROVE  Placed'
<1>1. settings.open /\ settings'.open /\ UNCHANGED <<who, joining, recover>> /\ settings \in SettingsRecord
  BY SectionSteps DEF preAuth, Whole
<1>2. who \in Account /\ factor[who] \in Secret \union {None} /\ who \in Secret \union {None}
  BY <1>1 DEF Seated, Inside, Kept, Secret
<1>3. CASE IssueKit
  <2>1. /\ settings.kit = "idle" /\ settings'.kit = "working" /\ settings'.two = settings.two
        /\ Submit("regenerate", who, None)
    BY <1>1, <1>3 DEF IssueKit, SettingsRecord
  <2>2. \A x \in calls : x.on => CallPlaced(x)' /\ x.kind # "regenerate"
    BY <1>1, <2>1 DEF Placed, CallPlaced
  <2>3. "regenerate" \in Kinds /\ "regenerate" \notin Writes
    BY DEF Kinds, Writes
  <2> QED
    BY <1>1, <1>2, <2>1, <2>2, <2>3, PlacedFresh
<1>4. CASE UpgradeKdf \/ ChangePassword
  <2>1. /\ settings'.kit = settings.kit /\ settings'.two = settings.two
        /\ \E k \in {"upgrade", "password"} : Submit(k, who, None)
    BY <1>1, <1>4 DEF UpgradeKdf, ChangePassword, SettingsRecord
  <2>2. \A x \in calls : x.on => CallPlaced(x)'
    BY <1>1, <2>1 DEF Placed, CallPlaced
  <2>3. {"upgrade", "password"} \subseteq Kinds \ Writes
    BY DEF Kinds, Writes
  <2> QED
    BY <1>1, <1>2, <2>1, <2>2, <2>3, PlacedFresh
<1>5. CASE ConfirmFactor \/ TurnOff
  <2>1. /\ settings'.kit = settings.kit /\ settings'.two = settings.two
        /\ settings.two \in {"scanning", "disabling"}
        /\ \E k \in Writes : \E v \in {who, factor[who]} : Submit(k, who, v)
    BY <1>1, <1>5 DEF ConfirmFactor, TurnOff, SettingsRecord, Writes
  <2>2. \A x \in calls : x.on => CallPlaced(x)'
    BY <1>1, <2>1 DEF Placed, CallPlaced
  <2>3. Writes \subseteq Kinds \ {"signup", "recover", "regenerate"}
    BY DEF Kinds, Writes
  <2> QED
    BY <1>1, <1>2, <2>1, <2>2, <2>3, PlacedFresh
<1>6. CASE Begin
  <2>1. settings'.kit = settings.kit /\ settings'.two = "scanning"
    BY <1>1, <1>6 DEF Begin, SettingsRecord
  <2>2. \A x \in calls : x.on => CallPlaced(x)'
    BY <1>1, <2>1 DEF Placed, CallPlaced
  <2> QED
    BY <1>6, <2>2, FromBegin, PlacedFrom
<1>7. CASE UNCHANGED calls /\ settings'.two \notin {"loading", "unknown"} /\ settings'.kit = settings.kit
  <2>1. \A x \in calls : x.on => CallPlaced(x)'
    BY <1>1, <1>7 DEF Placed, CallPlaced
  <2> QED
    BY <1>7, <2>1, FromCalls, PlacedFrom
<1>8. CASE TickKey \/ KitDone
  <2>1. /\ UNCHANGED calls /\ settings'.two = settings.two /\ settings.kit = "done"
    BY <1>1, <1>8 DEF TickKey, KitDone, SettingsRecord
  <2>2. \A x \in calls : x.on => CallPlaced(x)'
    BY <1>1, <2>1 DEF Placed, CallPlaced
  <2> QED
    BY <2>1, <2>2, FromCalls, PlacedFrom
<1>9. CASE ProbeServed \/ ProbeFails \/ Recheck
  <2>1. /\ UNCHANGED calls /\ settings'.kit = settings.kit
        /\ settings'.two = settings.two \/ settings.two \in {"loading", "unknown"}
    BY <1>1, <1>9 DEF ProbeServed, ProbeFails, Recheck, Whole, SettingsRecord
  <2>2. \A x \in calls : x.on => CallPlaced(x)'
    BY <1>1, <2>1 DEF Placed, CallPlaced
  <2> QED
    BY <2>1, <2>2, FromCalls, PlacedFrom
<1>10. CASE ProbeAnswered \/ AskTurnOff \/ Cancel \/ TickCodes \/ CodesDone
  BY <1>1, <1>7, <1>10 DEF ProbeAnswered, AskTurnOff, Cancel, TickCodes, CodesDone, SettingsRecord
<1> QED
  BY <1>3, <1>4, <1>5, <1>6, <1>8, <1>9, <1>10 DEF SectionStep

LEMMA PlacedAnswers ==
  ASSUME Seated, Kept, Whole(settings), Numbered, Placed, InForce, NEW c \in calls,
         Serve(c) \/ Answered(c) \/ Fails(c)
  PROVE  Placed'
<1> USE DEF preAuth
<1>1. c.kind \in Kinds /\ settings \in SettingsRecord
  BY DEF Numbered, Request, Whole
<1>2. CASE Serve(c)
  <2>1. From(calls)
    BY <1>2, FromStage DEF Serve
  <2> QED
    BY <1>2, <2>1, PlacedCalm DEF Serve
<1>3. CASE KeyHandedUp(c)
  <2>1. /\ calls' = LeftBehind(calls \ {c}, {"signup", "recover"}) /\ UNCHANGED <<who, settings>>
    BY <1>3 DEF KeyHandedUp
  <2>2. \A x \in calls \ {c} : x.on /\ x.kind \notin {"signup", "recover"} => CallPlaced(x)'
    BY <2>1 DEF Placed, CallPlaced
  <2> QED
    BY <2>1, <2>2, PlacedLeft
<1>4. CASE SectionTold(c) /\ c.stage = "ok"
  <2>1. /\ calls' = calls \ {c} /\ UNCHANGED <<joining, recover, who>> /\ From(calls \ {c})
        /\ settings' = IF c.on THEN Told(c) ELSE settings
    BY <1>4, FromCalls DEF SectionTold
  <2>2. CASE ~c.on
    BY <2>1, <2>2, PlacedCalm
  <2>3. CASE c.on /\ c.kind = "regenerate"
    <3>1. settings' = [settings EXCEPT !.kit = "done", !.key = c.id]
      BY <2>1, <2>3 DEF Told
    <3>2. settings'.open = settings.open /\ settings'.two = settings.two
      BY <1>1, <3>1 DEF SettingsRecord
    <3>3. \A x \in calls \ {c} : x.on => CallPlaced(x) /\ x.kind # "regenerate"
      BY <2>3 DEF Placed, Waits
    <3>4. \A x \in calls \ {c} : x.on => CallPlaced(x)'
      BY <2>1, <3>2, <3>3 DEF CallPlaced
    <3> QED
      BY <2>1, <3>4, PlacedFrom
  <2>4. CASE c.on /\ c.kind # "regenerate"
    <3>1. settings'.open = settings.open /\ settings'.kit = settings.kit
          /\ (settings'.two = settings.two \/ settings'.two \in {"codes", "off"})
      BY <1>1, <1>4, <2>1, <2>4 DEF SectionTold, Told, SettingsRecord
    <3>2. \A x \in calls \ {c} : x.on => CallPlaced(x)'
      BY <2>1, <3>1 DEF Placed, CallPlaced
    <3> QED
      BY <2>1, <3>2, PlacedFrom
  <2> QED
    BY <2>2, <2>3, <2>4
<1>5. CASE PasswordChanged(c)
  <2>1. CASE who # None
    <3>1. calls' = LeftBehind(calls \ {c}, Sections) /\ UNCHANGED <<joining, recover>>
      BY <1>5, <2>1 DEF PasswordChanged, LockNow, SectionsUnmount, Sections
    <3>2. \A x \in calls \ {c} : x.on /\ x.kind \notin Sections => CallPlaced(x)'
      BY <3>1 DEF Placed, CallPlaced, Sections, Writes
    <3> QED
      BY <3>1, <3>2, PlacedLeft
  <2>2. CASE who = None
    <3>1. calls' = calls \ {c} /\ UNCHANGED <<joining, recover, who, settings>>
      BY <1>5, <2>2 DEF PasswordChanged
    <3> QED
      BY <3>1, FromCalls, PlacedCalm
  <2> QED
    BY <2>1, <2>2
<1>6. CASE Fails(c)
  <2>1. /\ calls' = calls \ {c} /\ UNCHANGED who /\ From(calls \ {c})
        /\ settings' = IF c.on THEN Failed(c) ELSE settings
        /\ joining' = (joining /\ ~(c.kind = "signup" /\ c.on))
        /\ recover' = IF c.kind = "recover" /\ c.on THEN [recover EXCEPT !.phase = "password"] ELSE recover
    BY <1>6, FromCalls DEF Fails
  <2>2. \A x \in calls \ {c} : Waits(x) /\ c.on => x.kind # c.kind
    BY DEF Placed, Waits
  <2>3. settings'.open = settings.open /\ settings'.two = settings.two
        /\ (settings'.kit = settings.kit \/ (c.on /\ c.kind = "regenerate"))
    BY <1>1, <2>1 DEF Failed, SettingsRecord
  <2>4. \A x \in calls \ {c} : x.on => CallPlaced(x)'
    BY <2>1, <2>2, <2>3 DEF Placed, CallPlaced, Waits
  <2> QED
    BY <2>1, <2>4, PlacedFrom
<1> QED
  BY <1>2, <1>3, <1>4, <1>5, <1>6 DEF Answered

LEMMA PlacedStep ==
  ASSUME Seated, Kept, Whole(settings), Numbered, Placed, InForce, [Next]_vars
  PROVE  Placed'
<1>1. CASE SectionStep
  BY <1>1, PlacedSections
<1>2. ASSUME NEW a \in Account, Opened(a) \/ SignUp(a) \/ FindAndTryKey(a) PROVE Placed'
  BY <1>2, PlacedBefore
<1>3. CASE Enter \/ GoBack \/ Finish
  BY <1>3, PlacedBefore
<1>4. CASE Lock \/ SessionLost \/ LeaveSettings \/ OpenSettings
  BY <1>4, PlacedLeave
<1>5. ASSUME NEW c \in calls, Serve(c) \/ Answered(c) \/ Fails(c) PROVE Placed'
  BY <1>5, PlacedAnswers
<1>6. CASE \/ \E how \in {"form", "demo"} : Ask(how)
           \/ AskFails \/ OnUnlocked \/ SessionLostLate
           \/ \E to \in {"signup", "recover"} : Go(to)
           \/ TickKit \/ Continue
  <2>1. UNCHANGED <<calls, joining, recover, who, settings>>
    BY <1>6 DEF Ask, AskFails, OnUnlocked, SessionLostLate, Go, TickKit, Continue, preAuth
  <2> QED
    BY <2>1, FromCalls, PlacedCalm
<1>7. CASE UNCHANGED vars
  <2>1. UNCHANGED <<calls, joining, recover, who, settings>>
    BY <1>7 DEF vars, preAuth
  <2> QED
    BY <2>1, FromCalls, PlacedCalm
<1> QED
  BY <1>1, <1>2, <1>3, <1>4, <1>5, <1>6, <1>7 DEF Next, SectionStep

-----------------------------------------------------------------------------
(* Ticked boxes, and the secrets that are shown once.                      *)

LEMMA SeatedStep ==
  ASSUME Seated, Kept, Whole(settings), Numbered, Placed, [Next]_vars
  PROVE  Seated'
<1>1. CASE SectionStep
  <2>1. settings'.open = settings.open /\ UNCHANGED <<who, entered, asked, preAuth>>
    <3>1. /\ settings \in SettingsRecord /\ settings' \in SettingsRecord
          /\ settings.open /\ settings'.open /\ UNCHANGED <<who, entered, asked, preAuth>>
      BY <1>1, SectionSteps DEF Whole
    <3> QED
      BY <3>1 DEF SettingsRecord
  <2> QED
    BY <2>1, SeatedStay
<1>2. ASSUME NEW a \in Account, Opened(a) \/ SignUp(a) \/ FindAndTryKey(a) PROVE Seated'
  BY <1>2, SeatedUnlock, SeatedBefore
<1>3. ASSUME NEW how \in {"form", "demo"}, Ask(how) PROVE Seated'
  BY <1>3, SeatedUnlock
<1>4. ASSUME NEW to \in {"signup", "recover"}, Go(to) PROVE Seated'
  BY <1>4, SeatedBefore
<1>5. CASE AskFails \/ Enter \/ OnUnlocked \/ SessionLostLate
  BY <1>5, SeatedUnlock
<1>6. CASE GoBack \/ Finish \/ TickKit \/ Continue
  BY <1>6, SeatedBefore
<1>7. CASE Lock \/ SessionLost \/ LeaveSettings \/ OpenSettings
  BY <1>7, SeatedLeave
<1>8. ASSUME NEW c \in calls, Serve(c) \/ Answered(c) \/ Fails(c) PROVE Seated'
  BY <1>8, SeatedAnswers
<1>9. CASE UNCHANGED vars
  BY <1>9, SeatedStay DEF vars
<1> QED
  BY <1>1, <1>2, <1>3, <1>4, <1>5, <1>6, <1>7, <1>8, <1>9 DEF Next, SectionStep

LEMMA WholeStep ==
  ASSUME Seated, Kept, Whole(settings), Numbered, Placed, InForce, [Next]_vars
  PROVE  Whole(settings')
<1>1. CASE SectionStep
  BY <1>1, SectionSteps
<1>2. CASE Lock \/ SessionLost \/ LeaveSettings \/ OpenSettings
  BY <1>2, SeatedLeave
<1>3. ASSUME NEW c \in calls, Serve(c) \/ Answered(c) \/ Fails(c) PROVE Whole(settings')
  BY <1>3, WholeAnswers
<1>4. ASSUME NEW a \in Account, Opened(a) PROVE Whole(settings')
  <2>1. \E k \in {"prompt", "none"} : settings' = [settings EXCEPT !.kdf = k]
    BY <1>4 DEF Opened
  <2>2. ~settings.open /\ settings = [Closed EXCEPT !.kdf = settings.kdf]
    BY <1>4 DEF Opened, Seated, Inside, Whole
  <2>3. \E k \in {"prompt", "none"} : settings' = [Closed EXCEPT !.kdf = k]
    BY <2>1, <2>2 DEF Closed
  <2> QED
    BY <2>3 DEF Whole, Closed, SettingsRecord
<1>5. CASE \/ \E how \in {"form", "demo"} : Ask(how)
           \/ AskFails \/ Enter \/ OnUnlocked \/ SessionLostLate
           \/ \E to \in {"signup", "recover"} : Go(to)
           \/ GoBack
           \/ \E a \in Account : SignUp(a) \/ FindAndTryKey(a)
           \/ Finish \/ TickKit \/ Continue
           \/ UNCHANGED vars
  BY <1>5 DEF Ask, AskFails, Enter, OnUnlocked, SessionLostLate, Go, GoBack, SignUp, FindAndTryKey, Finish, TickKit,
     Continue, vars
<1> QED
  BY <1>1, <1>2, <1>3, <1>4, <1>5 DEF Next, SectionStep

\* A secret that was shown or on its way is out of sight only if it is saved or let go.
LEMMA HeldStep ==
  ASSUME Seated, Kept, Whole(settings), Numbered, Placed, InForce, Ticked, [Next]_vars
  PROVE  Held \subseteq Held' \union saved' \union gone' \union {None}
<1>1. saved \subseteq saved' /\ gone \subseteq gone'
  BY Growing
<1>2. CASE UNCHANGED <<slot, settings>>
  BY <1>2 DEF Held
<1>3. CASE slot' = slot /\ settings'.key = settings.key /\ settings'.codes = settings.codes
  BY <1>3 DEF Held
<1>4. CASE Continue
  BY <1>1, <1>4 DEF Continue, MayContinue, Drops, Held
<1>5. CASE Lock \/ SessionLost \/ LeaveSettings
  <2>1. saved' = saved /\ slot' = slot /\ \E k, cs : SectionsUnmount(k, cs)
    BY <1>5 DEF Lock, SessionLost, LeaveSettings, LockNow, preAuth
  <2> QED
    BY <2>1, UnmountDrops DEF Held
<1>6. CASE KitDone \/ CodesDone
  <2>1. slot' = slot /\ settings \in SettingsRecord /\ {slot} \subseteq Held'
    BY <1>6 DEF KitDone, CodesDone, preAuth, Whole, Held
  <2>2. CASE KitDone
    <3>1. settings.key \in saved /\ settings'.codes = settings.codes
      BY <1>6, <2>1, <2>2 DEF KitDone, Ticked, Boxes, SettingsRecord
    <3> QED
      BY <1>1, <2>1, <3>1 DEF Held
  <2>3. CASE CodesDone
    <3>1. settings.codes \in saved /\ settings'.key = settings.key
      BY <1>6, <2>1, <2>3 DEF CodesDone, Ticked, Boxes, SettingsRecord
    <3> QED
      BY <1>1, <2>1, <3>1 DEF Held
  <2> QED
    BY <1>6, <2>2, <2>3
<1>7. CASE SectionStep
  <2>1. settings \in SettingsRecord
    BY DEF Whole
  <2>2. CASE IssueKit \/ TickKey \/ UpgradeKdf \/ ChangePassword \/ ConfirmFactor \/ TurnOff
    BY <1>3, <2>1, <2>2 DEF IssueKit, TickKey, UpgradeKdf, ChangePassword, ConfirmFactor, TurnOff,
       SettingsRecord, preAuth
  <2>3. CASE ProbeServed \/ ProbeAnswered \/ ProbeFails \/ Recheck
    BY <1>3, <2>1, <2>3 DEF ProbeServed, ProbeAnswered, ProbeFails, Recheck, SettingsRecord, preAuth
  <2>4. CASE Begin \/ AskTurnOff \/ Cancel \/ TickCodes
    BY <1>3, <2>1, <2>4 DEF Begin, AskTurnOff, Cancel, TickCodes, SettingsRecord, preAuth
  <2> QED
    BY <1>6, <1>7, <2>2, <2>3, <2>4 DEF SectionStep
<1>8. ASSUME NEW c \in calls, Serve(c) \/ Answered(c) \/ Fails(c)
      PROVE  Held \subseteq Held' \union saved' \union gone' \union {None}
  <2>1. settings \in SettingsRecord
    BY DEF Whole
  <2>2. CASE Serve(c)
    BY <1>2, <2>2 DEF Serve, preAuth
  <2>3. CASE KeyHandedUp(c)
    BY <1>1, <2>3 DEF KeyHandedUp, Drops, Held
  <2>4. CASE SectionTold(c) /\ c.stage = "ok"
    <3>1. slot' = slot /\ saved' = saved /\ settings' = IF c.on THEN Told(c) ELSE settings
      BY <2>4 DEF SectionTold, preAuth
    <3>2. CASE ~c.on
      BY <1>2, <3>1, <3>2
    <3>3. CASE c.on /\ c.kind = "regenerate"
      <4>1. settings.key = None
        BY <3>3 DEF Placed, CallPlaced, Whole
      <4>2. settings'.codes = settings.codes
        BY <2>1, <3>1, <3>3 DEF Told, SettingsRecord
      <4> QED
        BY <3>1, <4>1, <4>2 DEF Held
    <3>4. CASE c.on /\ c.kind = "confirm"
      <4>1. settings.codes \in saved' \union gone' \union {None}
        BY <2>4, <3>4 DEF SectionTold, Drops
      <4>2. settings'.key = settings.key
        BY <2>1, <3>1, <3>4 DEF Told, SettingsRecord
      <4> QED
        BY <3>1, <4>1, <4>2 DEF Held
    <3>5. CASE c.on /\ c.kind \in {"upgrade", "disable"}
      BY <1>3, <2>1, <3>1, <3>5 DEF Told, SettingsRecord
    <3> QED
      BY <2>4, <3>2, <3>3, <3>4, <3>5 DEF SectionTold
  <2>5. CASE PasswordChanged(c)
    <3>1. saved' = saved /\ slot' = slot /\ (settings' = settings \/ \E k, cs : SectionsUnmount(k, cs))
      BY <2>5 DEF PasswordChanged, LockNow, preAuth
    <3> QED
      BY <1>2, <3>1, UnmountDrops DEF Held
  <2>6. CASE Fails(c)
    <3>1. slot' = slot /\ settings' = IF c.on THEN Failed(c) ELSE settings
      BY <2>6 DEF Fails
    <3>2. settings'.key = settings.key /\ settings'.codes = settings.codes
      BY <2>1, <3>1 DEF Failed, SettingsRecord
    <3> QED
      BY <1>3, <3>1, <3>2
  <2> QED
    BY <1>8, <2>2, <2>3, <2>4, <2>5, <2>6 DEF Answered
<1>9. CASE \/ \E how \in {"form", "demo"} : Ask(how)
           \/ AskFails \/ Enter \/ OnUnlocked \/ SessionLostLate \/ OpenSettings
           \/ \E to \in {"signup", "recover"} : Go(to)
           \/ GoBack
           \/ \E a \in Account : Opened(a) \/ SignUp(a) \/ FindAndTryKey(a)
           \/ Finish \/ TickKit
           \/ UNCHANGED vars
  <2>1. slot' = slot
    BY <1>9 DEF Ask, AskFails, Enter, OnUnlocked, SessionLostLate, OpenSettings, Go, GoBack, Opened, SignUp,
       FindAndTryKey, Finish, TickKit, vars, preAuth
  <2>2. settings'.key = settings.key /\ settings'.codes = settings.codes
    BY <1>9 DEF Ask, AskFails, Enter, OnUnlocked, SessionLostLate, OpenSettings, Go, GoBack, Opened, SignUp,
       FindAndTryKey, Finish, TickKit, vars, Whole, SettingsRecord
  <2> QED
    BY <1>3, <2>1, <2>2
<1> QED
  BY <1>4, <1>5, <1>7, <1>8, <1>9 DEF Next, SectionStep

\* Every call of cs goes on, if only to be thrown away when it is answered.
Carried(cs) == \A x \in cs : \E y \in calls' : y.id = x.id /\ y.kind = x.kind

LEMMA LeftCarried ==
  ASSUME Numbered, NEW cs, cs \subseteq calls, NEW K, calls' = LeftBehind(cs, K)
  PROVE  Carried(cs)
<1>1. cs \subseteq Request /\ Unique(cs)
  BY DEF Numbered, Unique
<1>2. \A d \in cs : \E c \in LeftBehind(cs, K) : Same(c, d) /\ (c.on <=> d.on /\ d.kind \notin K)
  BY <1>1, LeftBehindFacts
<1> QED
  BY <1>2 DEF Carried, Same

LEMMA StageCarried ==
  ASSUME Numbered, NEW c \in calls, NEW s, Stage(c, s)
  PROVE  Carried(calls) /\ \E y \in calls' : y.id = c.id /\ y.kind = c.kind
<1>1. [c EXCEPT !.stage = s].id = c.id /\ [c EXCEPT !.stage = s].kind = c.kind
  BY DEF Numbered, Request
<1>2. [c EXCEPT !.stage = s] \in calls'
  BY DEF Stage
<1>3. \A x \in calls : x = c \/ x \in calls'
  BY DEF Stage
<1> QED
  BY <1>1, <1>2, <1>3 DEF Carried

\* A one-time secret on its way arrives, is saved or is let go; if its request failed
\* unserved there is none.
Delivered(x) == x.id \in saved' \union Held' \union Coming' \union gone'

LEMMA CarriedDelivered ==
  ASSUME NEW cs, Carried(cs), NEW x \in cs, x.kind \in OneTime
  PROVE  Delivered(x)
BY DEF Carried, Delivered, Coming

LEMMA ComingStep ==
  ASSUME Seated, Kept, Whole(settings), Numbered, Placed, InForce, Ticked, [Next]_vars,
         NEW x \in calls, x.kind \in OneTime, x.stage = "ok"
  PROVE  Delivered(x)
<1>1. saved \subseteq saved' /\ gone \subseteq gone'
  BY Growing
<1>2. CASE calls \subseteq calls'
  <2>1. Carried(calls)
    BY <1>2 DEF Carried
  <2> QED
    BY <2>1, CarriedDelivered
<1>3. CASE Enter \/ GoBack \/ Lock \/ SessionLost \/ LeaveSettings
  <2>1. \E K : calls' = LeftBehind(calls, K)
    BY <1>3 DEF Enter, GoBack, Lock, SessionLost, LeaveSettings, LockNow, SectionsUnmount
  <2> QED
    BY <2>1, LeftCarried, CarriedDelivered
<1>4. CASE Begin
  <2> DEFINE Spent(c) == IF c.kind = "confirm" /\ c.acct = who THEN [c EXCEPT !.key = None] ELSE c
  <2>1. \A c \in calls : Spent(c).id = c.id /\ Spent(c).kind = c.kind
    BY DEF Numbered, Request
  <2>2. calls' = {Spent(c) : c \in calls}
    BY <1>4 DEF Begin
  <2> HIDE DEF Spent
  <2>3. Carried(calls)
    BY <2>1, <2>2 DEF Carried
  <2> QED
    BY <2>3, CarriedDelivered
<1>5. ASSUME NEW c \in calls, Serve(c) \/ Answered(c) \/ Fails(c) PROVE Delivered(x)
  <2>1. CASE Serve(c)
    BY <2>1, StageCarried, CarriedDelivered DEF Serve
  <2>2. CASE c # x /\ (Answered(c) \/ Fails(c))
    <3>1. CASE calls' = calls \ {c}
      <4>1. x \in calls'
        BY <2>2, <3>1
      <4> QED
        BY <4>1 DEF Delivered, Coming
    <3>2. CASE \E K : calls' = LeftBehind(calls \ {c}, K)
      BY <2>2, <3>2, LeftCarried, CarriedDelivered
    <3> QED
      BY <2>2, <3>1, <3>2
      DEF Answered, KeyHandedUp, SectionTold, PasswordChanged, LockNow, SectionsUnmount, Fails
  <2>3. CASE KeyHandedUp(c) /\ c = x
    BY <2>3 DEF KeyHandedUp, Delivered, Held
  <2>4. CASE SectionTold(c) /\ c = x
    <3>1. c.kind \in {"regenerate", "confirm"} /\ settings \in SettingsRecord
      BY <2>4 DEF SectionTold, OneTime, Whole
    <3>2. CASE ~c.on
      BY <1>1, <2>4, <3>1, <3>2 DEF Ticked, Delivered
    <3>3. CASE c.on
      <4>1. settings'.key = c.id \/ settings'.codes = c.id
        BY <2>4, <3>1, <3>3 DEF SectionTold, Told, SettingsRecord
      <4> QED
        BY <2>4, <4>1 DEF Delivered, Held
    <3> QED
      BY <3>2, <3>3
  <2>5. CASE PasswordChanged(c) /\ c = x
    BY <2>5 DEF PasswordChanged, OneTime
  <2>6. CASE Fails(c) /\ c = x
    <3>1. c.id \in saved \union gone' \union {None}
      BY <2>6 DEF Fails, Drops
    <3>2. c.id # None
      BY NoneAssumption DEF Numbered, Request
    <3> QED
      BY <1>1, <2>6, <3>1, <3>2 DEF Delivered
  <2> QED
    BY <1>5, <2>1, <2>2, <2>3, <2>4, <2>5, <2>6 DEF Answered
<1>6. CASE SectionStep
  BY <1>2, <1>4, <1>6 DEF SectionStep, IssueKit, TickKey, KitDone, UpgradeKdf, ChangePassword,
     ProbeServed, ProbeAnswered, ProbeFails, Recheck, ConfirmFactor, AskTurnOff, TurnOff,
     Cancel, TickCodes, CodesDone, Submit
<1>7. CASE \/ \E how \in {"form", "demo"} : Ask(how)
           \/ AskFails \/ OnUnlocked \/ SessionLostLate \/ OpenSettings
           \/ \E to \in {"signup", "recover"} : Go(to)
           \/ \E a \in Account : Opened(a) \/ SignUp(a) \/ FindAndTryKey(a)
           \/ Finish \/ TickKit \/ Continue
           \/ UNCHANGED vars
  BY <1>2, <1>7 DEF Ask, AskFails, OnUnlocked, SessionLostLate, OpenSettings, Go, Opened, SignUp, FindAndTryKey,
     Finish, TickKit, Continue, vars, Submit
<1> QED
  BY <1>3, <1>5, <1>6, <1>7 DEF Next, SectionStep

LEMMA OnceShownStep ==
  ASSUME Seated, Kept, Whole(settings), Numbered, Placed, Unmade, InForce, Ticked, OnceShownIsKept,
         [Next]_vars
  PROVE  OnceShownIsKept'
<1>1. SUFFICES ASSUME NEW a \in Account, NEW s \in {kit'[a], factor'[a]}, s # None
               PROVE  s \in saved' \union Held' \union Coming' \union gone'
  BY DEF OnceShownIsKept
<1>2. saved \subseteq saved' /\ gone \subseteq gone' /\ Held \subseteq Held' \union saved' \union gone' \union {None}
  BY Growing, HeldStep
<1>3. CASE s \in {kit[a], factor[a]}
  <2>1. s \in saved \union Held \union Coming \union gone
    BY <1>1, <1>3 DEF OnceShownIsKept
  <2>2. CASE s \in Coming
    <3>1. PICK x \in calls : x.kind \in OneTime /\ s = x.id
      BY <2>2 DEF Coming
    <3>2. x.stage = "ok"
      BY <1>3, <3>1 DEF Unmade
    <3> QED
      BY <3>1, <3>2, ComingStep DEF Delivered
  <2> QED
    BY <1>1, <1>2, <2>1, <2>2
<1>4. CASE s \notin {kit[a], factor[a]}
  <2>1. PICK c \in calls : Granted(c) /\ s = c.id /\ c.kind \in OneTime
    <3>1. ASSUME NEW c \in calls, Granted(c)
          PROVE  s = c.id /\ c.kind \in OneTime
      <4>1. kit'[a] = kit[a] \/ (kit'[a] = c.id /\ c.kind \in OneTime)
        BY <3>1, AcceptedFacts DEF Granted
      <4>2. factor'[a] \in {factor[a], None} \/ (factor'[a] = c.id /\ c.kind \in OneTime)
        BY <3>1, AcceptedFacts DEF Granted, OneTime
      <4> QED
        BY <1>1, <1>4, <4>1, <4>2
    <3> QED
      BY <1>1, <1>4, <3>1, ServerStep, ServeSplit DEF ProbeServed, Begin, server
  <2>2. \E y \in calls' : y.id = c.id /\ y.kind = c.kind
    BY <2>1, StageCarried DEF Granted
  <2> QED
    BY <2>1, <2>2 DEF Coming
<1> QED
  BY <1>3, <1>4

\* A section that is left lets go of what its calls may bring.
LEMMA OffStep ==
  ASSUME Seated, Kept, Whole(settings), Numbered, Ticked, [Next]_vars
  PROVE  \A c \in calls' : c.kind \in {"regenerate", "confirm"} /\ ~c.on => c.id \in gone' \union saved'
<1>1. saved \subseteq saved' /\ gone \subseteq gone'
  BY Growing
<1>2. CASE \A c \in calls' : c.on \/ \E x \in calls : /\ c.id = x.id /\ c.kind = x.kind
                                                      /\ x.on /\ x.kind \in {"regenerate", "confirm"} => c.on
  <2>1. SUFFICES ASSUME NEW c \in calls', c.kind \in {"regenerate", "confirm"}, ~c.on
                 PROVE  c.id \in gone \union saved
    BY <1>1
  <2>2. PICK x \in calls : /\ c.id = x.id /\ c.kind = x.kind
                           /\ x.on /\ x.kind \in {"regenerate", "confirm"} => c.on
    BY <1>2, <2>1
  <2> QED
    BY <2>1, <2>2 DEF Ticked
<1>3. ASSUME NEW cs, cs \subseteq calls, NEW K, calls' = LeftBehind(cs, K),
             K \intersect {"regenerate", "confirm"} = {}
      PROVE  \A c \in calls' : c.kind \in {"regenerate", "confirm"} /\ ~c.on => c.id \in gone' \union saved'
  <2>1. cs \subseteq Request /\ Unique(cs)
    BY <1>3 DEF Numbered, Unique
  <2>2. \A c \in calls' : \E d \in cs : Same(c, d) /\ (c.on <=> d.on /\ d.kind \notin K)
    BY <1>3, <2>1, LeftBehindFacts
  <2> QED
    BY <1>1, <1>3, <2>2 DEF Same, Ticked
<1>4. ASSUME NEW cs, cs \subseteq calls, NEW k, SectionsUnmount(k, cs), saved' = saved
      PROVE  \A c \in calls' : c.kind \in {"regenerate", "confirm"} /\ ~c.on => c.id \in gone' \union saved'
  <2>1. cs \subseteq Request /\ Unique(cs) /\ calls' = LeftBehind(cs, Sections)
    BY <1>4 DEF Numbered, Unique, SectionsUnmount, Sections
  <2>2. \A c \in calls' : \E d \in cs : Same(c, d)
    BY <2>1, LeftBehindFacts
  <2>3. \A d \in calls : d.kind \in {"regenerate", "confirm"} => d.id \in saved' \union gone'
    BY <1>1, <1>4, UnmountDrops DEF Ticked
  <2> QED
    BY <1>4, <2>2, <2>3 DEF Same
<1>5. CASE Enter \/ GoBack
  <2>1. calls' = LeftBehind(calls, {"signup", "recover"})
    BY <1>5 DEF Enter, GoBack
  <2> QED
    BY <2>1, <1>3
<1>6. CASE Lock \/ SessionLost \/ LeaveSettings
  <2>1. saved' = saved /\ \E k : SectionsUnmount(k, calls)
    BY <1>6 DEF Lock, SessionLost, LeaveSettings, LockNow
  <2> QED
    BY <2>1, <1>4
<1>7. CASE Begin
  <2> DEFINE Spent(c) == IF c.kind = "confirm" /\ c.acct = who THEN [c EXCEPT !.key = None] ELSE c
  <2>1. \A c \in calls : Spent(c).id = c.id /\ Spent(c).kind = c.kind /\ Spent(c).on = c.on
    BY DEF Numbered, Request
  <2>2. calls' = {Spent(c) : c \in calls}
    BY <1>7 DEF Begin
  <2> HIDE DEF Spent
  <2> QED
    BY <1>2, <2>1, <2>2
<1>8. ASSUME NEW c \in calls, Serve(c) \/ Answered(c) \/ Fails(c)
      PROVE  \A d \in calls' : d.kind \in {"regenerate", "confirm"} /\ ~d.on => d.id \in gone' \union saved'
  <2>1. CASE Serve(c)
    <3>1. \E s : calls' = (calls \ {c}) \union {[c EXCEPT !.stage = s]}
      BY <2>1 DEF Serve, Stage
    <3>2. c \in Request
      BY DEF Numbered
    <3> QED
      BY <1>2, <3>1, <3>2 DEF Request
  <2>2. CASE KeyHandedUp(c)
    <3>1. calls' = LeftBehind(calls \ {c}, {"signup", "recover"})
      BY <2>2 DEF KeyHandedUp
    <3> QED
      BY <3>1, <1>3
  <2>3. CASE calls' \subseteq calls
    BY <1>2, <2>3
  <2>4. CASE PasswordChanged(c) /\ who # None
    <3>1. saved' = saved /\ SectionsUnmount("none", calls \ {c})
      BY <2>4 DEF PasswordChanged, LockNow
    <3> QED
      BY <3>1, <1>4
  <2> QED
    BY <1>8, <2>1, <2>2, <2>3, <2>4 DEF Answered, SectionTold, PasswordChanged, Fails
<1>9. CASE \E k, a, v : Submit(k, a, v)
  <2>1. \A c \in calls' : c.on \/ c \in calls
    BY <1>9 DEF Submit
  <2> QED
    BY <1>2, <2>1
<1>10. CASE SectionStep
  BY <1>2, <1>7, <1>9, <1>10 DEF SectionStep, IssueKit, TickKey, KitDone, UpgradeKdf, ChangePassword,
     ProbeServed, ProbeAnswered, ProbeFails, Recheck, ConfirmFactor, AskTurnOff, TurnOff,
     Cancel, TickCodes, CodesDone
<1>11. CASE \/ \E how \in {"form", "demo"} : Ask(how)
            \/ AskFails \/ OnUnlocked \/ SessionLostLate \/ OpenSettings
            \/ \E to \in {"signup", "recover"} : Go(to)
            \/ \E a \in Account : Opened(a) \/ SignUp(a) \/ FindAndTryKey(a)
            \/ Finish \/ TickKit \/ Continue
            \/ UNCHANGED vars
  BY <1>2, <1>9, <1>11 DEF Ask, AskFails, OnUnlocked, SessionLostLate, OpenSettings, Go, Opened, SignUp, FindAndTryKey,
     Finish, TickKit, Continue, vars
<1> QED
  BY <1>5, <1>6, <1>8, <1>10, <1>11 DEF Next, SectionStep

LEMMA BoxesStep ==
  ASSUME Seated, Kept, Whole(settings), Numbered, Placed, InForce, Boxes, [Next]_vars
  PROVE  Boxes'
<1>1. saved \subseteq saved' /\ settings \in SettingsRecord
  BY Growing DEF Whole
<1>2. CASE /\ settings'.keyTick => settings.keyTick /\ settings'.key = settings.key
           /\ settings'.codesTick => settings.codesTick /\ settings'.codes = settings.codes
  BY <1>1, <1>2 DEF Boxes
<1>3. CASE TickKey
  BY <1>1, <1>3 DEF TickKey, Boxes, SettingsRecord
<1>4. CASE TickCodes
  BY <1>1, <1>4 DEF TickCodes, Boxes, SettingsRecord
<1>5. CASE KitDone \/ CodesDone
  BY <1>1, <1>2, <1>5 DEF KitDone, CodesDone, SettingsRecord
<1>6. CASE IssueKit \/ UpgradeKdf \/ ChangePassword \/ ConfirmFactor \/ TurnOff
  BY <1>1, <1>2, <1>6 DEF IssueKit, UpgradeKdf, ChangePassword, ConfirmFactor, TurnOff, SettingsRecord
<1>7. CASE ProbeServed \/ ProbeAnswered \/ ProbeFails \/ Recheck
  BY <1>1, <1>2, <1>7 DEF ProbeServed, ProbeAnswered, ProbeFails, Recheck, SettingsRecord
<1>8. CASE Begin \/ AskTurnOff \/ Cancel
  BY <1>1, <1>2, <1>8 DEF Begin, AskTurnOff, Cancel, SettingsRecord
<1>9. CASE Lock \/ SessionLost \/ LeaveSettings
  <2>1. \E k, cs : SectionsUnmount(k, cs)
    BY <1>9 DEF Lock, SessionLost, LeaveSettings, LockNow
  <2> QED
    BY <1>2, <2>1 DEF SectionsUnmount, Closed
<1>10. ASSUME NEW c \in calls, Serve(c) \/ Answered(c) \/ Fails(c) PROVE Boxes'
  <2>1. CASE settings' = settings
    BY <1>2, <2>1
  <2>2. CASE SectionTold(c) /\ c.on /\ c.stage = "ok"
    <3>1. settings' = Told(c)
      BY <2>2 DEF SectionTold
    <3>2. CASE c.kind = "regenerate"
      <4>1. ~settings.keyTick
        BY <2>2, <3>2 DEF Placed, CallPlaced, Whole
      <4> QED
        BY <1>1, <1>2, <3>1, <3>2, <4>1 DEF Told, SettingsRecord
    <3>3. CASE c.kind = "confirm"
      <4>1. settings.two \in {"scanning", "off"}
        BY <2>2, <3>3 DEF InForce, Ready
      <4>2. ~settings.codesTick
        BY <4>1 DEF Whole
      <4> QED
        BY <1>1, <1>2, <3>1, <3>3, <4>2 DEF Told, SettingsRecord
    <3>4. CASE c.kind \in {"upgrade", "disable"}
      BY <1>1, <1>2, <3>1, <3>4 DEF Told, SettingsRecord
    <3> QED
      BY <2>2, <3>2, <3>3, <3>4 DEF SectionTold
  <2>3. CASE \E k, cs : SectionsUnmount(k, cs)
    BY <1>2, <2>3 DEF SectionsUnmount, Closed
  <2>4. CASE Fails(c)
    BY <1>1, <1>2, <2>4 DEF Fails, Failed, SettingsRecord
  <2> QED
    BY <1>10, <2>1, <2>2, <2>3, <2>4 DEF Serve, Answered, KeyHandedUp, SectionTold, PasswordChanged, LockNow
<1>11. CASE \/ \E how \in {"form", "demo"} : Ask(how)
            \/ AskFails \/ Enter \/ OnUnlocked \/ SessionLostLate \/ OpenSettings
            \/ \E to \in {"signup", "recover"} : Go(to)
            \/ GoBack
            \/ \E a \in Account : Opened(a) \/ SignUp(a) \/ FindAndTryKey(a)
            \/ Finish \/ TickKit \/ Continue
            \/ UNCHANGED vars
  BY <1>1, <1>2, <1>11 DEF Ask, AskFails, Enter, OnUnlocked, SessionLostLate, OpenSettings, Go, GoBack, Opened, SignUp,
     FindAndTryKey, Finish, TickKit, Continue, vars, SettingsRecord
<1> QED
  BY <1>3, <1>4, <1>5, <1>6, <1>7, <1>8, <1>9, <1>10, <1>11 DEF Next, SectionStep

LEMMA TickedStep ==
  ASSUME Seated, Kept, Whole(settings), Numbered, Placed, InForce, Ticked, [Next]_vars
  PROVE  Ticked'
BY BoxesStep, OffStep DEF Ticked

-----------------------------------------------------------------------------
(* Two-factor: the codes in force, and what the section says.              *)

\* A two-factor write of calls' is one of calls, and no newly granted one.
WritesFrom ==
  /\ Unique(calls')
  /\ \A c \in calls' : c.kind \in Writes =>
       \E x \in calls : Descends(c, x) /\ (c.stage = "ok" => x.stage = "ok")

\* A two-factor write for a is still in flight, or failed unserved with its section there.
WritesTo(a) == \A x \in calls : x.kind \in Writes /\ x.acct = a =>
  (x.on /\ x.stage # "ok") \/ \E c \in calls' : Descends(c, x)

LEMMA KeepWrites ==
  ASSUME Numbered, NEW cs, cs \subseteq calls, calls' = cs
  PROVE  WritesFrom
BY DEF Numbered, WritesFrom, Unique, Descends

LEMMA LeftWrites ==
  ASSUME Numbered, NEW cs, cs \subseteq calls, NEW K, calls' = LeftBehind(cs, K)
  PROVE  /\ WritesFrom
         /\ \A x \in cs : \E c \in calls' : Descends(c, x)
         /\ \A c \in calls' : c.on => c.kind \notin K
<1>1. cs \subseteq Request /\ Unique(cs)
  BY DEF Numbered, Unique
<1>2. /\ Unique(LeftBehind(cs, K))
      /\ \A c \in calls' : \E d \in cs : Same(c, d) /\ (c.on <=> d.on /\ d.kind \notin K)
      /\ \A d \in cs : \E c \in calls' : Same(c, d) /\ (c.on <=> d.on /\ d.kind \notin K)
  BY <1>1, LeftBehindFacts
<1>3. \A c \in calls' : \E x \in cs : Descends(c, x) /\ c.stage = x.stage
  BY <1>2 DEF Same, Descends
<1>4. \A x \in cs : \E c \in calls' : Descends(c, x)
  BY <1>2 DEF Same, Descends
<1>5. \A c \in calls' : c.on => c.kind \notin K
  BY <1>2 DEF Same
<1> QED
  BY <1>2, <1>3, <1>4, <1>5 DEF WritesFrom

LEMMA StageWrites ==
  ASSUME Numbered, NEW c \in calls, NEW s \in {"ok", "no"}, c.stage = "sent", Stage(c, s)
  PROVE  /\ \A x \in calls : \E y \in calls' : Descends(y, x)
         /\ c.kind \notin Writes \/ s = "no" => WritesFrom
         /\ \A y \in calls' : \/ y \in calls /\ y.id # c.id
                              \/ /\ y.id = c.id /\ y.kind = c.kind /\ y.acct = c.acct
                                 /\ y.stage = s /\ (y.on <=> c.on)
         /\ \E y \in calls' : /\ y.id = c.id /\ y.kind = c.kind /\ y.acct = c.acct
                              /\ y.stage = s /\ (y.on <=> c.on)
<1> DEFINE z == [c EXCEPT !.stage = s]
<1>1. z.id = c.id /\ z.kind = c.kind /\ z.acct = c.acct /\ z.key = c.key /\ z.stage = s /\ z.on = c.on
  BY DEF Numbered, Request
<1>2. calls' = (calls \ {c}) \union {z}
  BY DEF Stage
<1> HIDE DEF z
<1>3. \A x \in calls : Descends(x, x)
  BY DEF Descends
<1>4. Descends(z, c)
  BY <1>1 DEF Descends
<1>5. \A x \in calls : \E y \in calls' : Descends(y, x)
  BY <1>2, <1>3, <1>4
<1>6. \A y \in calls' : y = z \/ (y \in calls /\ y.id # c.id)
  BY <1>2 DEF Numbered
<1>7. c.kind \notin Writes \/ s = "no" => WritesFrom
  <2>1. Unique(calls')
    BY FromStage DEF From
  <2> QED
    BY <1>1, <1>3, <1>4, <1>6, <2>1 DEF WritesFrom
<1> QED
  BY <1>1, <1>2, <1>5, <1>6, <1>7

LEMMA BeginWrites ==
  ASSUME Numbered, Begin
  PROVE  /\ WritesFrom
         /\ \A x \in calls : \E c \in calls' : Descends(c, x)
         /\ \A c \in calls' : c.kind = "confirm" /\ c.acct = who => c.key = None
<1> DEFINE Spent(c) == IF c.kind = "confirm" /\ c.acct = who THEN [c EXCEPT !.key = None] ELSE c
<1>1. \A d \in calls : /\ Descends(Spent(d), d) /\ Spent(d).stage = d.stage
                       /\ Spent(d).kind = "confirm" /\ Spent(d).acct = who => Spent(d).key = None
  BY DEF Numbered, Request, Descends
<1>2. calls' = {Spent(c) : c \in calls}
  BY DEF Begin
<1>3. Unique(calls')
  BY FromBegin DEF From
<1> HIDE DEF Spent
<1> QED
  BY <1>1, <1>2, <1>3 DEF WritesFrom

LEMMA SubmitWrites ==
  ASSUME Numbered, NEW k \in Kinds, NEW a \in Account, NEW v \in Secret \union {None}, Submit(k, a, v)
  PROVE  /\ k \notin Writes => WritesFrom
         /\ \A x \in calls : \E c \in calls' : Descends(c, x)
<1>1. PICK c \in Request : calls' = calls \union {c} /\ c.kind = k /\ \A d \in calls : d.id # c.id
  BY SubmitFacts
<1>2. Unique(calls')
  BY <1>1 DEF Numbered, Unique
<1>3. \A x \in calls : Descends(x, x)
  BY DEF Descends
<1> QED
  BY <1>1, <1>2, <1>3 DEF WritesFrom

\* The sections of two-factor as they move without the server.
Turning ==
  /\ UNCHANGED <<who, factor, begun>>
  /\ \/ settings'.two = settings.two /\ settings'.codes = settings.codes
     \/ settings.two \in {"off", "scanning"} /\ settings'.two \in {"off", "scanning"}
     \/ settings.two \in {"on", "disabling"} /\ settings'.two \in {"on", "disabling"}

LEMMA InForceCalm ==
  ASSUME InForce, WritesFrom, Turning
  PROVE  InForce'
<1>1. \A c \in calls' : c.kind \in {"confirm", "disable"} =>
        \E x \in calls : Descends(c, x) /\ (c.stage = "ok" => x.stage = "ok")
  BY DEF WritesFrom, Writes
<1>2. (settings.two = "codes" =>
         /\ factor[who] = settings.codes
         /\ \A d \in calls : d.kind = "disable" => d.key # settings.codes)'
  BY <1>1 DEF InForce, Turning, Descends
<1>3. \A c \in Ready("confirm")' : \E x \in Ready("confirm") : Descends(c, x)
  BY <1>1 DEF Ready, Descends
<1>4. \A c \in Ready("disable")' : \E x \in Ready("disable") : Descends(c, x)
  BY <1>1 DEF Ready, Descends
<1>5. (\A c \in Ready("confirm") :
         /\ factor[c.acct] = c.id /\ settings.two \in {"scanning", "off"}
         /\ \A d \in calls : d.kind = "disable" => d.key # c.id)'
  BY <1>1, <1>3 DEF InForce, Turning, Descends
<1>6. (\A c \in Ready("disable") :
         factor[who] = None /\ who \notin begun /\ settings.two \in {"on", "disabling"})'
  BY <1>4 DEF InForce, Turning
<1>7. (\A c, d \in Ready("confirm") \union Ready("disable") : c = d)'
  <2>1. SUFFICES ASSUME NEW c \in Ready("confirm")' \union Ready("disable")',
                        NEW d \in Ready("confirm")' \union Ready("disable")'
                 PROVE  c = d
    OBVIOUS
  <2>2. PICK x \in Ready("confirm") \union Ready("disable"), y \in Ready("confirm") \union Ready("disable") :
          Descends(c, x) /\ Descends(d, y)
    BY <1>3, <1>4, <2>1
  <2>3. c.id = d.id
    BY <2>2 DEF InForce, Descends
  <2> QED
    BY <2>1, <2>3 DEF Ready, WritesFrom, Unique
<1>8. (\A c \in Here({"disable"}) :
         c.stage = "sent" /\ factor[who] # None /\ c.key = factor[who] => settings.two \in {"on", "disabling"})'
  <2>1. \A c \in Here({"disable"})' : c.stage = "sent" =>
          \E x \in Here({"disable"}) : x.stage = "sent" /\ x.key = c.key
    BY <1>1 DEF Here, Descends
  <2> QED
    BY <2>1 DEF InForce, Turning
<1>9. (\A c \in Here({"confirm"}) :
         c.stage = "sent" /\ factor[who] = None /\ who \in begun /\ c.key # None
           => settings.two \in {"scanning", "off"})'
  <2>1. \A c \in Here({"confirm"})' : c.stage = "sent" /\ c.key # None =>
          \E x \in Here({"confirm"}) : x.stage = "sent" /\ x.key # None
    BY <1>1 DEF Here, Descends
  <2> QED
    BY <2>1 DEF InForce, Turning
<1> QED
  BY <1>2, <1>5, <1>6, <1>7, <1>8, <1>9 DEF InForce

\* With no write that a section waits for, only codes on screen matter.
LEMMA InForceQuiet ==
  ASSUME \A c \in calls' : c.kind \in Writes => ~c.on, settings'.two # "codes"
  PROVE  InForce'
<1>1. Ready("confirm")' = {} /\ Ready("disable")' = {}
  BY DEF Ready, Writes
<1>2. Here({"disable"})' = {} /\ Here({"confirm"})' = {}
  BY DEF Here, Writes
<1> QED
  BY <1>1, <1>2 DEF InForce

LEMMA OpenSections ==
  ASSUME Seated, Whole(settings), settings.two # "loading" \/ settings.open
  PROVE  settings.open /\ who \in Account
<1>1. settings.open
  BY DEF Whole, Closed
<1> QED
  BY <1>1 DEF Seated, Inside

\* The parts of InForce, of the step's calls.
LEMMA InForceIntro ==
  ASSUME settings'.two = "codes" =>
           /\ factor'[who'] = settings'.codes
           /\ \A d \in calls' : d.kind = "disable" => d.key # settings'.codes,
         \A c \in calls' : c.kind = "confirm" /\ c.on /\ c.stage = "ok" =>
           /\ factor'[c.acct] = c.id /\ settings'.two \in {"scanning", "off"}
           /\ \A d \in calls' : d.kind = "disable" => d.key # c.id,
         \A c \in calls' : c.kind = "disable" /\ c.on /\ c.stage = "ok" =>
           factor'[who'] = None /\ who' \notin begun' /\ settings'.two \in {"on", "disabling"},
         \A c, d \in calls' : /\ c.kind \in Writes /\ c.on /\ c.stage = "ok"
                              /\ d.kind \in Writes /\ d.on /\ d.stage = "ok"
           => c = d,
         \A c \in calls' : /\ c.kind = "disable" /\ c.on /\ c.stage = "sent"
                           /\ factor'[who'] # None /\ c.key = factor'[who']
           => settings'.two \in {"on", "disabling"},
         \A c \in calls' : /\ c.kind = "confirm" /\ c.on /\ c.stage = "sent"
                           /\ factor'[who'] = None /\ who' \in begun' /\ c.key # None
           => settings'.two \in {"scanning", "off"}
  PROVE  InForce'
<1>1. \A k : Ready(k)' = {c \in calls' : c.kind = k /\ c.on /\ c.stage = "ok"}
  BY DEF Ready
<1>2. \A ks : Here(ks)' = {c \in calls' : c.kind \in ks /\ c.on}
  BY DEF Here
<1> QED
  BY <1>1, <1>2 DEF InForce, Writes

\* A confirmation is granted: its codes are in force, and no request that is on its
\* way was made with them.
LEMMA InForceConfirm ==
  ASSUME Kept, Seated, Whole(settings), Numbered, Placed, Unmade, InForce,
         NEW c \in calls, Serve(c), Granted(c), c.kind = "confirm"
  PROVE  InForce'
<1>1. /\ c.stage = "sent" /\ factor[c.acct] = None /\ factor'[c.acct] = c.id /\ begun' = begun
      /\ c.acct \in begun /\ c.key # None /\ c.acct \in Account /\ c.id # None
      /\ \A a \in Account : a # c.acct => factor'[a] = factor[a]
      /\ UNCHANGED <<who, settings>>
  BY AcceptedFacts, ServeSplit, NoneAssumption DEF Granted, Writes, Numbered, Request
<1>2. /\ \A y \in calls' : \/ y \in calls /\ y.id # c.id
                           \/ /\ y.id = c.id /\ y.kind = c.kind /\ y.acct = c.acct
                              /\ y.stage = "ok" /\ (y.on <=> c.on)
      /\ Unique(calls')
  BY <1>1, StageWrites, FromStage DEF Granted, From
<1>3. \A d \in calls' : d.kind = "disable" => d \in calls /\ d.key # c.id
  BY <1>1, <1>2 DEF Unmade
<1>4. \A d \in calls : /\ d.on /\ d.kind \in Writes => d.acct = who /\ who \in Account
                       /\ d.id # None /\ d.acct \in Account
  BY OpenSections, NoneAssumption DEF Placed, CallPlaced, Sections, Writes, Numbered, Request
<1>5. settings.two = "codes" => c.acct # who /\ who \in Account
  <2>1. settings.two = "codes" => who \in Account /\ factor[who] = settings.codes /\ settings.codes # None
    BY OpenSections DEF InForce, Whole
  <2> QED
    BY <1>1, <2>1
<1>6. c.on => c.acct = who /\ factor[who] = None /\ who \in begun /\ settings.two \in {"scanning", "off"}
  <2>1. c.on => c.acct = who /\ c \in Here({"confirm"})
    BY <1>4 DEF Writes, Here
  <2> QED
    BY <1>1, <2>1 DEF InForce
<1>7. \A d \in calls : d.kind = "confirm" /\ d.on /\ d.stage = "ok" =>
        /\ factor[d.acct] = d.id /\ d.acct # c.acct /\ settings.two \in {"scanning", "off"}
        /\ \A e \in calls : e.kind = "disable" => e.key # d.id
  <2>1. \A d \in calls : d.kind = "confirm" /\ d.on /\ d.stage = "ok" => d \in Ready("confirm")
    BY DEF Ready
  <2> QED
    BY <1>1, <1>4, <2>1 DEF InForce
<1>8. \A d \in calls : d.kind = "disable" /\ d.on /\ d.stage = "ok" =>
        /\ factor[who] = None /\ who \notin begun /\ settings.two \in {"on", "disabling"}
        /\ c.acct # who /\ who \in Account
  <2>1. \A d \in calls : d.kind = "disable" /\ d.on /\ d.stage = "ok" => d \in Ready("disable")
    BY DEF Ready
  <2> QED
    BY <1>1, <1>4, <2>1 DEF InForce, Writes
<1>9. settings'.two = "codes" =>
        /\ factor'[who'] = settings'.codes
        /\ \A d \in calls' : d.kind = "disable" => d.key # settings'.codes
  BY <1>1, <1>3, <1>5 DEF InForce
<1>10. \A y \in calls' : y.kind = "confirm" /\ y.on /\ y.stage = "ok" =>
         /\ factor'[y.acct] = y.id /\ settings'.two \in {"scanning", "off"}
         /\ \A d \in calls' : d.kind = "disable" => d.key # y.id
  <2>1. SUFFICES ASSUME NEW y \in calls', y.kind = "confirm", y.on, y.stage = "ok"
                 PROVE  /\ factor'[y.acct] = y.id /\ settings.two \in {"scanning", "off"}
                        /\ \A d \in calls' : d.kind = "disable" => d.key # y.id
    BY <1>1
  <2>2. CASE y.id = c.id
    BY <1>1, <1>2, <1>3, <1>6, <2>1, <2>2
  <2>3. CASE y \in calls
    BY <1>1, <1>3, <1>4, <1>7, <2>1, <2>3
  <2> QED
    BY <1>2, <2>2, <2>3
<1>11. \A y \in calls' : y.kind = "disable" /\ y.on /\ y.stage = "ok" =>
         factor'[who'] = None /\ who' \notin begun' /\ settings'.two \in {"on", "disabling"}
  BY <1>1, <1>3, <1>8
<1>12. \A y, d \in calls' : /\ y.kind \in Writes /\ y.on /\ y.stage = "ok"
                            /\ d.kind \in Writes /\ d.on /\ d.stage = "ok"
         => y = d
  <2>1. ASSUME NEW y \in calls', y.kind \in Writes, y.on, y.stage = "ok", y.id # c.id
        PROVE  ~c.on /\ y \in Ready("confirm") \union Ready("disable")
    BY <1>2, <1>4, <1>6, <1>7, <1>8, <2>1 DEF Writes, Ready
  <2>2. \A x, y \in Ready("confirm") \union Ready("disable") : x = y
    BY DEF InForce
  <2>3. \A x, y \in calls' : x.id = y.id => x = y
    BY <1>2 DEF Unique
  <2>4. \A y \in calls' : y.id = c.id => (y.on <=> c.on)
    BY <1>2
  <2>5. SUFFICES ASSUME NEW y \in calls', NEW d \in calls', y.kind \in Writes, y.on, y.stage = "ok",
                        d.kind \in Writes, d.on, d.stage = "ok"
                 PROVE  y = d
    OBVIOUS
  <2>6. CASE y.id # c.id /\ d.id # c.id
    BY <2>1, <2>2, <2>5, <2>6
  <2>7. CASE y.id = c.id /\ d.id = c.id
    BY <2>3, <2>7
  <2>8. CASE (y.id = c.id) # (d.id = c.id)
    BY <2>1, <2>4, <2>5, <2>8
  <2> QED
    BY <2>6, <2>7, <2>8
<1>13. \A y \in calls' : /\ y.kind = "disable" /\ y.on /\ y.stage = "sent"
                         /\ factor'[who'] # None /\ y.key = factor'[who']
         => settings'.two \in {"on", "disabling"}
  <2>1. ASSUME NEW y \in calls, y.kind = "disable", y.on, y.stage = "sent",
               factor[who] # None, y.key = factor[who]
        PROVE  settings.two \in {"on", "disabling"}
    BY <2>1 DEF InForce, Here
  <2> QED
    BY <1>1, <1>3, <1>4, <2>1 DEF Writes
<1>14. \A y \in calls' : /\ y.kind = "confirm" /\ y.on /\ y.stage = "sent"
                         /\ factor'[who'] = None /\ who' \in begun' /\ y.key # None
         => settings'.two \in {"scanning", "off"}
  <2>1. ASSUME NEW y \in calls, y.kind = "confirm", y.on, y.stage = "sent",
               factor[who] = None, who \in begun, y.key # None
        PROVE  settings.two \in {"scanning", "off"}
    BY <2>1 DEF InForce, Here
  <2> QED
    BY <1>1, <1>2, <1>4, <2>1 DEF Writes
<1> QED
  BY <1>9, <1>10, <1>11, <1>12, <1>13, <1>14, InForceIntro

\* TURN OFF is granted: the codes it was sent with were in force until now.
LEMMA InForceDisable ==
  ASSUME Kept, Seated, Whole(settings), Numbered, Placed, Unmade, InForce,
         NEW c \in calls, Serve(c), Granted(c), c.kind = "disable"
  PROVE  InForce'
<1>1. /\ c.stage = "sent" /\ factor[c.acct] # None /\ factor[c.acct] = c.key /\ factor'[c.acct] = None
      /\ c.acct \notin begun' /\ c.acct \in Account
      /\ \A a \in Account : a # c.acct => factor'[a] = factor[a] /\ (a \in begun' <=> a \in begun)
      /\ UNCHANGED <<who, settings>>
  BY AcceptedFacts, ServeSplit DEF Granted, Writes, Numbered, Request
<1>2. /\ \A y \in calls' : \/ y \in calls /\ y.id # c.id
                           \/ /\ y.id = c.id /\ y.kind = c.kind /\ y.acct = c.acct
                              /\ y.stage = "ok" /\ (y.on <=> c.on)
      /\ Unique(calls')
      /\ \A y \in calls' : \E x \in calls : Descends(y, x)
  BY <1>1, StageWrites, FromStage DEF Granted, From
<1>3. \A d \in calls' : d.kind = "disable" => \E x \in calls : x.kind = "disable" /\ x.key = d.key
  BY <1>2 DEF Descends
<1>4. \A d \in calls : /\ d.on /\ d.kind \in Writes => d.acct = who /\ who \in Account
                       /\ d.acct \in Account
  BY OpenSections DEF Placed, CallPlaced, Sections, Writes, Numbered, Request
<1>5. settings.two = "codes" => c.acct # who /\ who \in Account
  <2>1. settings.two = "codes" => who \in Account /\ factor[who] = settings.codes /\ c.key # settings.codes
    BY OpenSections DEF InForce
  <2> QED
    BY <1>1, <2>1
<1>6. c.on => c.acct = who /\ settings.two \in {"on", "disabling"}
  <2>1. c.on => c.acct = who /\ c \in Here({"disable"})
    BY <1>4 DEF Writes, Here
  <2> QED
    BY <1>1, <2>1 DEF InForce
<1>7. \A d \in calls : d.kind = "confirm" /\ d.on /\ d.stage = "ok" =>
        /\ factor[d.acct] = d.id /\ d.acct # c.acct /\ settings.two \in {"scanning", "off"}
        /\ \A e \in calls : e.kind = "disable" => e.key # d.id
  <2>1. \A d \in calls : d.kind = "confirm" /\ d.on /\ d.stage = "ok" => d \in Ready("confirm")
    BY DEF Ready
  <2> QED
    BY <1>1, <2>1 DEF InForce
<1>8. \A d \in calls : d.kind = "disable" /\ d.on /\ d.stage = "ok" =>
        /\ factor[who] = None /\ who \notin begun /\ settings.two \in {"on", "disabling"}
        /\ c.acct # who /\ who \in Account
  <2>1. \A d \in calls : d.kind = "disable" /\ d.on /\ d.stage = "ok" => d \in Ready("disable")
    BY DEF Ready
  <2> QED
    BY <1>1, <1>4, <2>1 DEF InForce, Writes
<1>9. settings'.two = "codes" =>
        /\ factor'[who'] = settings'.codes
        /\ \A d \in calls' : d.kind = "disable" => d.key # settings'.codes
  BY <1>1, <1>3, <1>5 DEF InForce
<1>10. \A y \in calls' : y.kind = "confirm" /\ y.on /\ y.stage = "ok" =>
         /\ factor'[y.acct] = y.id /\ settings'.two \in {"scanning", "off"}
         /\ \A d \in calls' : d.kind = "disable" => d.key # y.id
  <2>1. SUFFICES ASSUME NEW y \in calls', y.kind = "confirm", y.on, y.stage = "ok"
                 PROVE  /\ factor'[y.acct] = y.id /\ settings.two \in {"scanning", "off"}
                        /\ \A d \in calls' : d.kind = "disable" => d.key # y.id
    BY <1>1
  <2>2. y \in calls
    BY <1>2, <2>1
  <2> QED
    BY <1>1, <1>3, <1>4, <1>7, <2>1, <2>2
<1>11. \A y \in calls' : y.kind = "disable" /\ y.on /\ y.stage = "ok" =>
         factor'[who'] = None /\ who' \notin begun' /\ settings'.two \in {"on", "disabling"}
  BY <1>1, <1>2, <1>6, <1>8
<1>12. \A y, d \in calls' : /\ y.kind \in Writes /\ y.on /\ y.stage = "ok"
                            /\ d.kind \in Writes /\ d.on /\ d.stage = "ok"
         => y = d
  <2>1. ASSUME NEW y \in calls', y.kind \in Writes, y.on, y.stage = "ok", y.id # c.id
        PROVE  ~c.on /\ y \in Ready("confirm") \union Ready("disable")
    BY <1>2, <1>4, <1>6, <1>7, <1>8, <2>1 DEF Writes, Ready
  <2>2. \A x, y \in Ready("confirm") \union Ready("disable") : x = y
    BY DEF InForce
  <2>3. \A x, y \in calls' : x.id = y.id => x = y
    BY <1>2 DEF Unique
  <2>4. \A y \in calls' : y.id = c.id => (y.on <=> c.on)
    BY <1>2
  <2>5. SUFFICES ASSUME NEW y \in calls', NEW d \in calls', y.kind \in Writes, y.on, y.stage = "ok",
                        d.kind \in Writes, d.on, d.stage = "ok"
                 PROVE  y = d
    OBVIOUS
  <2>6. CASE y.id # c.id /\ d.id # c.id
    BY <2>1, <2>2, <2>5, <2>6
  <2>7. CASE y.id = c.id /\ d.id = c.id
    BY <2>3, <2>7
  <2>8. CASE (y.id = c.id) # (d.id = c.id)
    BY <2>1, <2>4, <2>5, <2>8
  <2> QED
    BY <2>6, <2>7, <2>8
<1>13. \A y \in calls' : /\ y.kind = "disable" /\ y.on /\ y.stage = "sent"
                         /\ factor'[who'] # None /\ y.key = factor'[who']
         => settings'.two \in {"on", "disabling"}
  <2>1. ASSUME NEW y \in calls, y.kind = "disable", y.on, y.stage = "sent",
               factor[who] # None, y.key = factor[who]
        PROVE  settings.two \in {"on", "disabling"}
    BY <2>1 DEF InForce, Here
  <2> QED
    BY <1>1, <1>2, <1>4, <2>1 DEF Writes
<1>14. \A y \in calls' : /\ y.kind = "confirm" /\ y.on /\ y.stage = "sent"
                         /\ factor'[who'] = None /\ who' \in begun' /\ y.key # None
         => settings'.two \in {"scanning", "off"}
  <2>1. ASSUME NEW y \in calls, y.kind = "confirm", y.on, y.stage = "sent",
               factor[who] = None, who \in begun, y.key # None
        PROVE  settings.two \in {"scanning", "off"}
    BY <2>1 DEF InForce, Here
  <2> QED
    BY <1>1, <1>2, <1>4, <2>1 DEF Writes
<1> QED
  BY <1>9, <1>10, <1>11, <1>12, <1>13, <1>14, InForceIntro

LEMMA InForceSections ==
  ASSUME Seated, Kept, Whole(settings), Numbered, Placed, InForce, SectionStep
  PROVE  InForce'
<1>1. settings.open /\ UNCHANGED who /\ settings \in SettingsRecord /\ who \in Account
  BY SectionSteps, OpenSections DEF Whole
<1>2. factor[who] \in Secret \union {None} /\ None \in Secret \union {None} /\ who \in Secret \union {None}
  BY <1>1 DEF Kept, Secret
<1>3. \A c \in calls : /\ c.kind = "confirm" /\ c.on /\ c.stage = "ok" => c \in Ready("confirm")
                       /\ c.kind = "disable" /\ c.on /\ c.stage = "ok" => c \in Ready("disable")
                       /\ c.kind = "confirm" /\ c.on => c \in Here({"confirm"})
                       /\ c.kind = "disable" /\ c.on => c \in Here({"disable"})
                       /\ c.kind \in Writes /\ c.on => c.acct = who /\ settings.two \notin {"loading", "unknown"}
                       /\ c.id # None
  BY NoneAssumption DEF Ready, Here, Placed, CallPlaced, Sections, Writes, Numbered, Request
<1>4. CASE TickKey \/ KitDone \/ ProbeServed \/ AskTurnOff \/ Cancel \/ TickCodes
  <2>1. calls' = calls /\ UNCHANGED <<factor, begun>>
    BY <1>4 DEF TickKey, KitDone, ProbeServed, AskTurnOff, Cancel, TickCodes, server
  <2>2. \/ settings'.two = settings.two /\ settings'.codes = settings.codes
        \/ settings.two \in {"off", "scanning"} /\ settings'.two \in {"off", "scanning"}
        \/ settings.two \in {"on", "disabling"} /\ settings'.two \in {"on", "disabling"}
    BY <1>1, <1>4 DEF TickKey, KitDone, ProbeServed, AskTurnOff, Cancel, TickCodes, SettingsRecord
  <2> QED
    BY <1>1, <2>1, <2>2, KeepWrites, InForceCalm DEF Turning
<1>5. CASE IssueKit \/ UpgradeKdf \/ ChangePassword
  <2>1. PICK k \in Kinds \ Writes : Submit(k, who, None)
    BY <1>5 DEF IssueKit, UpgradeKdf, ChangePassword, Kinds, Writes
  <2>2. WritesFrom
    BY <1>1, <1>2, <2>1, SubmitWrites
  <2>3. UNCHANGED <<factor, begun>> /\ settings'.two = settings.two /\ settings'.codes = settings.codes
    BY <1>1, <1>5 DEF IssueKit, UpgradeKdf, ChangePassword, server, SettingsRecord
  <2> QED
    BY <1>1, <2>2, <2>3, InForceCalm DEF Turning
<1>6. CASE ProbeAnswered \/ ProbeFails \/ Recheck
  <2>1. calls' = calls /\ settings.two \in {"loading", "unknown"} /\ settings'.two # "codes"
    BY <1>1, <1>6 DEF ProbeAnswered, ProbeFails, Recheck, Whole, SettingsRecord
  <2> QED
    BY <1>3, <2>1, InForceQuiet
<1>7. CASE Begin
  <2>1. settings.two = "off" /\ settings'.two = "scanning" /\ factor[who] = None /\ factor' = factor
    BY <1>1, <1>7 DEF Begin, SettingsRecord
  <2>2. /\ \A c \in calls' : c.kind \in {"confirm", "disable"} =>
             \E x \in calls : Descends(c, x) /\ (c.stage = "ok" => x.stage = "ok")
        /\ \A c \in calls' : c.kind = "confirm" /\ c.acct = who => c.key = None
    BY <1>7, BeginWrites DEF WritesFrom, Writes
  <2>3. \A x \in calls : x.kind \in Writes /\ x.on => x.stage # "ok"
    BY <1>3, <2>1 DEF InForce, Writes
  <2>4. \A c \in calls' : c.kind \in Writes /\ c.on => c.stage # "ok" /\ c.acct = who
    BY <1>3, <2>2, <2>3 DEF Descends, Writes
  <2>5. \A c \in calls' : c.kind = "confirm" /\ c.on => c.key = None
    BY <2>2, <2>4 DEF Writes
  <2> QED
    BY <1>1, <2>1, <2>4, <2>5, InForceIntro DEF Writes
<1>8. CASE CodesDone
  <2>1. settings.two = "codes" /\ settings'.two = "on" /\ calls' = calls /\ factor' = factor
        /\ settings.codes # None
    BY <1>1, <1>8 DEF CodesDone, SettingsRecord, server, Whole
  <2>2. factor[who] # None
    BY <2>1 DEF InForce
  <2>3. \A x \in calls : x.kind \in Writes /\ x.on => x.stage # "ok"
    BY <1>3, <2>1 DEF InForce, Writes
  <2> QED
    BY <1>1, <2>1, <2>2, <2>3, InForceIntro DEF Writes
<1>9. CASE ConfirmFactor
  <2>1. /\ settings.two = "scanning" /\ settings'.two = "scanning" /\ UNCHANGED <<factor, begun>>
        /\ Submit("confirm", who, who)
    BY <1>1, <1>9 DEF ConfirmFactor, SettingsRecord, server
  <2>2. \A c \in calls' : c \in calls \/ (c.kind = "confirm" /\ c.stage = "sent")
    BY <2>1 DEF Submit
  <2>3. \A c, d \in calls : c.kind \in Writes /\ c.on /\ c.stage = "ok" /\ d.kind \in Writes /\ d.on
                            /\ d.stage = "ok" => c = d
    BY <1>3 DEF InForce, Writes
  <2> QED
    BY <1>1, <1>3, <2>1, <2>2, <2>3, InForceIntro DEF InForce
<1>10. CASE TurnOff
  <2>1. /\ settings.two = "disabling" /\ settings'.two = "disabling" /\ UNCHANGED <<factor, begun>>
        /\ Submit("disable", who, factor[who])
    BY <1>1, <1>10 DEF TurnOff, SettingsRecord, server
  <2>2. \A c \in calls' : c \in calls \/ (c.kind = "disable" /\ c.stage = "sent")
    BY <2>1 DEF Submit
  <2>3. \A c, d \in calls : c.kind \in Writes /\ c.on /\ c.stage = "ok" /\ d.kind \in Writes /\ d.on
                            /\ d.stage = "ok" => c = d
    BY <1>3 DEF InForce, Writes
  <2> QED
    BY <1>1, <1>3, <2>1, <2>2, <2>3, InForceIntro DEF InForce
<1> QED
  BY <1>4, <1>5, <1>6, <1>7, <1>8, <1>9, <1>10 DEF SectionStep

LEMMA InForceLeave ==
  ASSUME Seated, Whole(settings), Numbered, Placed, NEW a, NEW k, NEW cs, cs \subseteq calls,
         OpenSettings \/ Opened(a) \/ SectionsUnmount(k, cs)
  PROVE  InForce'
<1>1. \A c \in calls : c.on /\ c.kind \in Writes => settings.open
  BY DEF Placed, CallPlaced, Sections, Writes
<1>2. CASE OpenSettings \/ Opened(a)
  <2>1. ~settings.open /\ calls' = calls
    BY <1>2 DEF OpenSettings, Opened, Seated, Inside
  <2>2. settings'.two # "codes"
    BY <1>2, <2>1 DEF OpenSettings, Opened, Whole, SettingsRecord, Closed
  <2> QED
    BY <1>1, <2>1, <2>2, InForceQuiet
<1>3. CASE SectionsUnmount(k, cs)
  <2>1. calls' = LeftBehind(cs, Sections) /\ settings'.two # "codes"
    BY <1>3 DEF SectionsUnmount, Sections, Closed
  <2>2. \A c \in calls' : c.on => c.kind \notin Sections
    BY <2>1, LeftWrites
  <2> QED
    BY <2>1, <2>2, InForceQuiet DEF Sections, Writes
<1> QED
  BY <1>2, <1>3

LEMMA InForceAnswers ==
  ASSUME Seated, Kept, Whole(settings), Numbered, Placed, Unmade, InForce, NEW c \in calls,
         Serve(c) \/ Answered(c) \/ Fails(c)
  PROVE  InForce'
<1>1. settings \in SettingsRecord /\ c.id # None /\ calls \ {c} \subseteq calls /\ c.kind \in Kinds
  BY NoneAssumption DEF Whole, Numbered, Request
<1>2. CASE Serve(c)
  <2>1. CASE Granted(c) /\ c.kind \in Writes
    BY <1>2, <2>1, InForceConfirm, InForceDisable DEF Writes
  <2>2. CASE Granted(c) /\ c.kind \notin Writes
    <3>1. WritesFrom
      BY <2>2, StageWrites DEF Granted
    <3>2. factor' = factor /\ begun' = begun /\ UNCHANGED <<who, settings>>
      BY <1>2, <2>2, AcceptedFacts DEF Granted, Serve, Writes
    <3> QED
      BY <3>1, <3>2, InForceCalm DEF Turning
  <2>3. CASE Stage(c, "no") /\ UNCHANGED server
    <3>1. WritesFrom
      BY <1>2, <2>3, ServeSplit, StageWrites
    <3> QED
      BY <1>2, <2>3, <3>1, InForceCalm DEF Turning, Serve, server
  <2> QED
    BY <1>2, <2>1, <2>2, <2>3, ServeSplit
<1>3. CASE KeyHandedUp(c) /\ UNCHANGED server
  <2>1. WritesFrom
    BY <1>1, <1>3, LeftWrites DEF KeyHandedUp
  <2> QED
    BY <1>3, <2>1, InForceCalm DEF Turning, KeyHandedUp, server
<1>4. CASE /\ calls' = calls \ {c} /\ UNCHANGED <<who, server>>
           /\ settings'.two = settings.two /\ settings'.codes = settings.codes
  <2>1. WritesFrom
    BY <1>1, <1>4, KeepWrites
  <2> QED
    BY <1>4, <2>1, InForceCalm DEF Turning, server
<1>5. CASE SectionTold(c) /\ UNCHANGED server /\ c.stage = "ok"
  <2>1. calls' = calls \ {c} /\ UNCHANGED <<who, factor, begun>> /\ settings' = IF c.on THEN Told(c) ELSE settings
    BY <1>5 DEF SectionTold, server
  <2>2. CASE ~c.on \/ c.kind \in {"regenerate", "upgrade"}
    <3>1. settings'.two = settings.two /\ settings'.codes = settings.codes
      BY <1>1, <2>1, <2>2 DEF Told, SettingsRecord
    <3> QED
      BY <1>4, <1>5, <2>1, <3>1
  <2>3. ASSUME c.on, c.kind \in Writes
        PROVE  /\ c.acct = who
               /\ \A d \in calls' : d.kind \in Writes /\ d.on => d.stage # "ok"
    <3>1. c.acct = who
      BY <2>3 DEF Placed, CallPlaced, Sections, Writes
    <3>2. \A d \in calls : d.kind \in Writes /\ d.on /\ d.stage = "ok" => d = c
      BY <1>5, <2>3 DEF InForce, Writes, Ready
    <3> QED
      BY <2>1, <3>1, <3>2
  <2>4. CASE c.on /\ c.kind = "confirm"
    <3>1. /\ c.acct = who /\ factor[who] = c.id
          /\ \A d \in calls : d.kind = "disable" => d.key # c.id
          /\ \A d \in calls' : d.kind \in Writes /\ d.on => d.stage # "ok"
      BY <1>5, <2>3, <2>4 DEF InForce, Ready, Writes
    <3>2. settings'.two = "codes" /\ settings'.codes = c.id
      BY <1>1, <2>1, <2>4 DEF Told, SettingsRecord
    <3> QED
      BY <1>1, <2>1, <3>1, <3>2, InForceIntro DEF Writes
  <2>5. CASE c.on /\ c.kind = "disable"
    <3>1. /\ factor[who] = None /\ who \notin begun
          /\ \A d \in calls' : d.kind \in Writes /\ d.on => d.stage # "ok"
      BY <1>5, <2>3, <2>5 DEF InForce, Ready, Writes
    <3>2. settings'.two = "off"
      BY <1>1, <2>1, <2>5 DEF Told, SettingsRecord
    <3> QED
      BY <2>1, <3>1, <3>2, InForceIntro DEF Writes
  <2> QED
    BY <1>5, <2>2, <2>4, <2>5 DEF SectionTold
<1>6. CASE PasswordChanged(c) /\ UNCHANGED server
  <2>1. CASE who # None
    BY <1>1, <1>6, <2>1, InForceLeave DEF PasswordChanged, LockNow
  <2>2. CASE who = None
    BY <1>4, <1>6, <2>2 DEF PasswordChanged
  <2> QED
    BY <2>1, <2>2
<1>7. CASE Fails(c)
  <2>1. settings'.two = settings.two /\ settings'.codes = settings.codes
    BY <1>1, <1>7 DEF Fails, Failed, SettingsRecord
  <2> QED
    BY <1>4, <1>7, <2>1 DEF Fails
<1> QED
  BY <1>2, <1>3, <1>5, <1>6, <1>7 DEF Answered

LEMMA InForceStep ==
  ASSUME Seated, Kept, Whole(settings), Numbered, Placed, Unmade, InForce, [Next]_vars
  PROVE  InForce'
<1>1. CASE SectionStep
  BY <1>1, InForceSections
<1>2. ASSUME NEW c \in calls, Serve(c) \/ Answered(c) \/ Fails(c) PROVE InForce'
  BY <1>2, InForceAnswers
<1>3. CASE OpenSettings \/ Lock \/ SessionLost \/ LeaveSettings \/ \E a \in Account : Opened(a)
  BY <1>3, InForceLeave DEF Lock, SessionLost, LeaveSettings, LockNow
<1>4. CASE Enter \/ GoBack
  <2>1. calls' = LeftBehind(calls, {"signup", "recover"}) /\ UNCHANGED <<who, settings, factor, begun>>
    BY <1>4 DEF Enter, GoBack, server
  <2>2. WritesFrom
    BY <2>1, LeftWrites
  <2> QED
    BY <2>1, <2>2, InForceCalm DEF Turning
<1>5. CASE Finish \/ \E a \in Account : SignUp(a)
  <2>1. UNCHANGED <<who, settings, factor, begun>>
    BY <1>5 DEF Finish, SignUp, server
  <2>2. Finish => recover.acct \in Account /\ recover.key \in Secret \union {None}
    BY DEF Finish, Seated, Blank, RecoverRecord
  <2>3. \E k \in Kinds \ Writes : \E a \in Account : \E v \in Secret \union {None} : Submit(k, a, v)
    BY <1>5, <2>2 DEF Finish, SignUp, Kinds, Writes
  <2>4. WritesFrom
    BY <2>3, SubmitWrites
  <2> QED
    BY <2>1, <2>4, InForceCalm DEF Turning
<1>6. CASE \/ \E how \in {"form", "demo"} : Ask(how)
           \/ AskFails \/ OnUnlocked \/ SessionLostLate
           \/ \E to \in {"signup", "recover"} : Go(to)
           \/ \E a \in Account : FindAndTryKey(a)
           \/ TickKit \/ Continue
           \/ UNCHANGED vars
  <2>1. UNCHANGED <<calls, who, settings, factor, begun>>
    BY <1>6 DEF Ask, AskFails, OnUnlocked, SessionLostLate, Go, FindAndTryKey, TickKit, Continue, vars, server
  <2> QED
    BY <2>1, KeepWrites, InForceCalm DEF Turning
<1> QED
  BY <1>1, <1>2, <1>3, <1>4, <1>5, <1>6 DEF Next, SectionStep

LEMMA WritesKept ==
  ASSUME Placed, WritesTo(who), \A c \in calls' : c.kind \in Writes /\ c.acct = who => c.on
  PROVE  /\ \A c \in calls : c.kind \in Writes /\ c.acct = who => c.on
         /\ \A k \in Writes : Ready(k) # {} => Ready(k)' # {}
<1>1. \A c \in calls : c.kind \in Writes /\ c.acct = who => c.on
  BY DEF WritesTo, Descends
<1>2. ASSUME NEW k \in Writes, NEW x \in Ready(k) PROVE Ready(k)' # {}
  <2>1. x \in calls /\ x.kind = k /\ x.acct = who /\ x.stage = "ok"
    BY <1>2 DEF Ready, Placed, CallPlaced, Sections, Writes
  <2>2. PICK c \in calls' : Descends(c, x)
    BY <2>1 DEF WritesTo
  <2>3. c.kind = k /\ c.stage = "ok" /\ c.on
    BY <2>1, <2>2 DEF Descends
  <2> QED
    BY <2>3 DEF Ready
<1> QED
  BY <1>1, <1>2

LEMMA TruthfulCalm ==
  ASSUME Truthful, Placed, who' = who, settings'.open => settings.open /\ factor'[who] = factor[who],
         who \notin unheard' => who \notin unheard /\ WritesTo(who),
         settings'.two \in {"off", "scanning"} => settings.two \in {"off", "scanning"},
         settings'.two \in {"on", "disabling"} => settings.two \in {"on", "disabling"},
         settings'.probe \in {"off", "on"} => settings.probe = settings'.probe
  PROVE  Truthful'
<1>1. SUFFICES ASSUME settings'.open, who \notin unheard',
                      \A c \in calls' : c.kind \in Writes /\ c.acct = who => c.on
               PROVE  /\ settings'.two \in {"off", "scanning"} => factor'[who] = None \/ Ready("confirm")' # {}
                      /\ settings'.two \in {"on", "disabling"} => factor'[who] # None \/ Ready("disable")' # {}
                      /\ settings'.probe = "off" => factor'[who] = None
                      /\ settings'.probe = "on" => factor'[who] # None
  BY DEF Truthful
<1>2. /\ \A c \in calls : c.kind \in Writes /\ c.acct = who => c.on
      /\ \A k \in Writes : Ready(k) # {} => Ready(k)' # {}
  BY <1>1, WritesKept
<1>3. /\ settings.two \in {"off", "scanning"} => factor[who] = None \/ Ready("confirm") # {}
      /\ settings.two \in {"on", "disabling"} => factor[who] # None \/ Ready("disable") # {}
      /\ settings.probe = "off" => factor[who] = None
      /\ settings.probe = "on" => factor[who] # None
  BY <1>1, <1>2 DEF Truthful
<1> QED
  BY <1>1, <1>2, <1>3 DEF Writes

LEMMA TruthfulSections ==
  ASSUME Seated, Kept, Whole(settings), Numbered, Placed, InForce, Truthful, SectionStep
  PROVE  Truthful'
<1>1. settings.open /\ UNCHANGED who /\ settings \in SettingsRecord /\ who \in Account
      /\ who \in Secret \union {None} /\ None \in Secret \union {None} /\ factor[who] \in Secret \union {None}
  BY SectionSteps, OpenSections DEF Whole, Secret, Kept
<1>2. calls' = calls => WritesTo(who)
  BY DEF WritesTo, Descends
<1>3. settings.two # "loading" => settings.probe = "none"
  BY DEF Whole
<1>4. CASE TickKey \/ KitDone \/ AskTurnOff \/ Cancel \/ TickCodes
  <2>1. calls' = calls /\ UNCHANGED <<factor, unheard>>
    BY <1>4 DEF TickKey, KitDone, AskTurnOff, Cancel, TickCodes, server
  <2>2. /\ settings'.two \in {"off", "scanning"} => settings.two \in {"off", "scanning"}
        /\ settings'.two \in {"on", "disabling"} => settings.two \in {"on", "disabling"}
        /\ settings'.probe = settings.probe
    BY <1>1, <1>4 DEF TickKey, KitDone, AskTurnOff, Cancel, TickCodes, SettingsRecord
  <2> QED
    BY <1>1, <1>2, <2>1, <2>2, TruthfulCalm
<1>5. CASE IssueKit \/ UpgradeKdf \/ ChangePassword \/ ConfirmFactor \/ TurnOff
  <2>1. \E k \in Kinds : \E v \in Secret \union {None} : Submit(k, who, v)
    BY <1>1, <1>5 DEF IssueKit, UpgradeKdf, ChangePassword, ConfirmFactor, TurnOff, Kinds
  <2>2. WritesTo(who)
    BY <1>1, <2>1, SubmitWrites DEF WritesTo
  <2>3. UNCHANGED <<factor, unheard>> /\ settings'.two = settings.two /\ settings'.probe = settings.probe
    BY <1>1, <1>5 DEF IssueKit, UpgradeKdf, ChangePassword, ConfirmFactor, TurnOff, server, SettingsRecord
  <2> QED
    BY <1>1, <2>2, <2>3, TruthfulCalm
<1>6. CASE ProbeServed
  <2>1. /\ settings'.two = "loading" /\ factor' = factor
        /\ settings'.probe = IF factor[who] = None THEN "off" ELSE "on"
    BY <1>1, <1>3, <1>6 DEF ProbeServed, SettingsRecord, server
  <2> QED
    BY <1>1, <2>1 DEF Truthful
<1>7. CASE ProbeAnswered
  <2>1. /\ settings'.two = settings.probe /\ settings'.probe = "none" /\ settings.probe \in {"off", "on"}
        /\ UNCHANGED <<factor, unheard, calls>>
    BY <1>1, <1>7 DEF ProbeAnswered, SettingsRecord, server
  <2> QED
    BY <1>1, <2>1 DEF Truthful
<1>8. CASE ProbeFails \/ Recheck
  <2>1. settings'.two \in {"unknown", "loading"} /\ settings'.probe \in {"none", "asked"}
    BY <1>1, <1>8 DEF ProbeFails, Recheck, SettingsRecord
  <2> QED
    BY <2>1 DEF Truthful
<1>9. CASE Begin
  <2>1. settings'.two = "scanning" /\ settings'.probe = "none" /\ factor[who] = None /\ factor' = factor
    BY <1>1, <1>3, <1>9 DEF Begin, SettingsRecord
  <2> QED
    BY <1>1, <2>1 DEF Truthful
<1>10. CASE CodesDone
  <2>1. /\ settings.two = "codes" /\ settings'.two = "on" /\ settings'.probe = "none" /\ factor' = factor
        /\ settings.codes # None
    BY <1>1, <1>3, <1>10 DEF CodesDone, SettingsRecord, server, Whole
  <2>2. factor[who] # None
    BY <2>1 DEF InForce
  <2> QED
    BY <1>1, <2>1, <2>2 DEF Truthful
<1> QED
  BY <1>4, <1>5, <1>6, <1>7, <1>8, <1>9, <1>10 DEF SectionStep

\* A two-factor write is granted: the section it tells is told.
LEMMA TruthfulServe ==
  ASSUME Seated, Kept, Whole(settings), Numbered, Placed, InForce, Truthful, NEW c \in calls, Serve(c)
  PROVE  Truthful'
<1>1. /\ UNCHANGED <<who, settings, unheard>> /\ c.stage = "sent" /\ c.acct \in Account /\ c.id # None
      /\ \E s \in {"ok", "no"} : Stage(c, s)
  BY ServeSplit, NoneAssumption DEF Numbered, Request, Granted
<1>2. WritesTo(who)
  BY <1>1, StageWrites DEF WritesTo
<1>3. CASE settings.open => factor'[who] = factor[who]
  BY <1>1, <1>2, <1>3, TruthfulCalm
<1>4. ASSUME settings.open, factor'[who] # factor[who]
      PROVE  Truthful'
  <2>1. who \in Account
    BY <1>4, OpenSections
  <2>2. Granted(c)
    BY <1>4, ServeSplit DEF server
  <2>3. /\ c.acct = who
        /\ \/ c.kind = "confirm" /\ factor'[who] = c.id
           \/ c.kind = "disable" /\ factor'[who] = None
    BY <1>4, <2>1, <2>2, AcceptedFacts DEF Granted
  <2>4. PICK y \in calls' : y.id = c.id /\ y.kind = c.kind /\ y.acct = c.acct /\ y.stage = "ok" /\ (y.on <=> c.on)
    BY <1>1, <2>2, StageWrites DEF Granted
  <2>5. SUFFICES ASSUME y.on
                 PROVE  /\ settings.two \in {"off", "scanning"} => factor'[who] = None \/ Ready("confirm")' # {}
                        /\ settings.two \in {"on", "disabling"} => factor'[who] # None \/ Ready("disable")' # {}
                        /\ settings.probe \notin {"off", "on"}
    BY <1>1, <2>3, <2>4 DEF Truthful, Writes
  <2>6. settings.probe = "none"
    BY <2>3, <2>4, <2>5 DEF Placed, CallPlaced, Writes, Whole
  <2>7. y \in Ready(c.kind)'
    BY <2>4, <2>5 DEF Ready
  <2> QED
    BY <1>1, <2>3, <2>6, <2>7
<1> QED
  BY <1>3, <1>4

LEMMA TruthfulAnswers ==
  ASSUME Seated, Kept, Whole(settings), Numbered, Placed, InForce, Truthful, NEW c \in calls,
         Answered(c) \/ Fails(c)
  PROVE  Truthful'
<1>1. settings \in SettingsRecord /\ calls \ {c} \subseteq calls /\ c.kind \in Kinds
      /\ (settings.two # "loading" => settings.probe = "none")
  BY DEF Whole, Numbered, Request
<1>2. factor' = factor
  BY DEF Answered, Fails, server
<1>3. CASE KeyHandedUp(c)
  <2>1. WritesTo(who)
    BY <1>1, <1>3, LeftWrites DEF KeyHandedUp, WritesTo, Writes
  <2> QED
    BY <1>2, <1>3, <2>1, TruthfulCalm DEF KeyHandedUp
<1>4. CASE /\ calls' = calls \ {c} /\ settings'.open = settings.open /\ settings'.two = settings.two
           /\ settings'.probe = settings.probe /\ who' = who
           /\ \/ unheard' = unheard /\ (c.kind \in Writes => c.on /\ c.stage # "ok")
              \/ c.kind \in Writes /\ unheard' = unheard \union {c.acct}
  <2>1. \A x \in calls \ {c} : \E y \in calls' : Descends(y, x)
    BY <1>4 DEF Descends
  <2>2. who \notin unheard' => who \notin unheard /\ WritesTo(who)
    BY <1>4, <2>1 DEF WritesTo
  <2> QED
    BY <1>2, <1>4, <2>2, TruthfulCalm
<1>5. CASE SectionTold(c) /\ c.stage = "ok"
  <2>1. /\ calls' = calls \ {c} /\ who' = who /\ settings' = IF c.on THEN Told(c) ELSE settings
        /\ unheard' = IF c.kind \in Writes /\ ~c.on THEN unheard \union {c.acct} ELSE unheard
    BY <1>5 DEF SectionTold
  <2>2. CASE ~c.on
    BY <1>4, <2>1, <2>2
  <2>3. CASE c.on /\ c.kind \in {"regenerate", "upgrade"}
    <3>1. settings'.open = settings.open /\ settings'.two = settings.two /\ settings'.probe = settings.probe
      BY <1>1, <2>1, <2>3 DEF Told, SettingsRecord
    <3> QED
      BY <1>4, <2>1, <2>3, <3>1 DEF Writes
  <2>4. CASE c.on /\ c.kind = "confirm"
    <3>1. settings.probe = "none"
      BY <1>1, <1>5, <2>4 DEF InForce, Ready
    <3>2. settings'.two = "codes" /\ settings'.probe = "none"
      BY <1>1, <2>1, <2>4, <3>1 DEF Told, SettingsRecord
    <3> QED
      BY <3>2 DEF Truthful
  <2>5. CASE c.on /\ c.kind = "disable"
    <3>1. factor[who] = None /\ settings.probe = "none"
      BY <1>1, <1>5, <2>5 DEF InForce, Ready
    <3>2. settings'.two = "off" /\ settings'.probe = "none"
      BY <1>1, <2>1, <2>5, <3>1 DEF Told, SettingsRecord
    <3> QED
      BY <1>2, <2>1, <3>1, <3>2 DEF Truthful
  <2> QED
    BY <1>5, <2>2, <2>3, <2>4, <2>5 DEF SectionTold
<1>6. CASE PasswordChanged(c)
  <2>1. ~settings'.open
    BY <1>6 DEF PasswordChanged, LockNow, SectionsUnmount, Closed, Seated, Inside
  <2> QED
    BY <2>1 DEF Truthful
<1>7. CASE Fails(c)
  <2>1. settings'.open = settings.open /\ settings'.two = settings.two /\ settings'.probe = settings.probe
    BY <1>1, <1>7 DEF Fails, Failed, SettingsRecord
  <2>2. /\ calls' = calls \ {c} /\ who' = who
        /\ unheard' = IF c.kind \in Writes /\ (c.stage = "ok" \/ ~c.on) THEN unheard \union {c.acct} ELSE unheard
    BY <1>7 DEF Fails
  <2> QED
    BY <1>4, <2>1, <2>2
<1> QED
  BY <1>3, <1>5, <1>6, <1>7 DEF Answered

LEMMA TruthfulStep ==
  ASSUME Seated, Kept, Whole(settings), Numbered, Placed, InForce, Truthful, [Next]_vars
  PROVE  Truthful'
<1>1. CASE SectionStep
  BY <1>1, TruthfulSections
<1>2. ASSUME NEW c \in calls, Serve(c) \/ Answered(c) \/ Fails(c) PROVE Truthful'
  BY <1>2, TruthfulServe, TruthfulAnswers
<1>3. CASE Lock \/ SessionLost \/ LeaveSettings \/ \E a \in Account : Opened(a)
  <2>1. ~settings'.open
    BY <1>3 DEF Lock, SessionLost, LeaveSettings, LockNow, SectionsUnmount, Opened, Closed, Seated, Inside,
       Whole, SettingsRecord
  <2> QED
    BY <2>1 DEF Truthful
<1>4. CASE OpenSettings
  <2>1. settings'.two = "loading" /\ settings'.probe = "asked"
    BY <1>4 DEF OpenSettings, Whole, SettingsRecord
  <2> QED
    BY <2>1 DEF Truthful
<1>5. CASE Enter \/ GoBack
  <2>1. calls' = LeftBehind(calls, {"signup", "recover"}) /\ UNCHANGED <<who, settings, factor, unheard>>
    BY <1>5 DEF Enter, GoBack, server
  <2>2. WritesTo(who)
    BY <2>1, LeftWrites DEF WritesTo
  <2> QED
    BY <2>1, <2>2, TruthfulCalm
<1>6. CASE Finish \/ \E a \in Account : SignUp(a)
  <2>1. UNCHANGED <<who, settings, factor, unheard>>
    BY <1>6 DEF Finish, SignUp, server
  <2>2. Finish => recover.acct \in Account /\ recover.key \in Secret \union {None}
    BY DEF Finish, Seated, Blank, RecoverRecord
  <2>3. \E k \in Kinds : \E a \in Account : \E v \in Secret \union {None} : Submit(k, a, v)
    BY <1>6, <2>2 DEF Finish, SignUp, Kinds
  <2>4. WritesTo(who)
    BY <2>3, SubmitWrites DEF WritesTo
  <2> QED
    BY <2>1, <2>4, TruthfulCalm
<1>7. CASE \/ \E how \in {"form", "demo"} : Ask(how)
           \/ AskFails \/ OnUnlocked \/ SessionLostLate
           \/ \E to \in {"signup", "recover"} : Go(to)
           \/ \E a \in Account : FindAndTryKey(a)
           \/ TickKit \/ Continue
           \/ UNCHANGED vars
  <2>1. UNCHANGED <<calls, who, settings, factor, unheard>>
    BY <1>7 DEF Ask, AskFails, OnUnlocked, SessionLostLate, Go, FindAndTryKey, TickKit, Continue, vars, server
  <2>2. WritesTo(who)
    BY <2>1 DEF WritesTo, Descends
  <2> QED
    BY <2>1, <2>2, TruthfulCalm
<1> QED
  BY <1>1, <1>2, <1>3, <1>4, <1>5, <1>6, <1>7 DEF Next, SectionStep

-----------------------------------------------------------------------------
(* The account screens: the theorems.                                      *)

LEMMA ScreensInit ==
  ASSUME Init
  PROVE  ScreensInv
<1> USE DEF Init
<1>1. Seated /\ Explained
  <2>1. Blank \in RecoverRecord /\ ~Closed.open
    BY DEF RecoverRecord, Blank, Closed
  <2>2. Seated
    BY <2>1 DEF Seated
  <2>3. who = None /\ lockNo = 0 /\ postLock = 0 /\ session = 0 /\ clearing = FALSE /\ byDemo = FALSE
    OBVIOUS
  <2> HIDE DEF Init
  <2>4. lockNo \in 0 .. MaxLocks /\ postLock \in 0 .. lockNo /\ session \in 0 .. lockNo
    BY <2>3, BoundAssumption
  <2>5. Explained
    BY <2>3, <2>4 DEF Explained
  <2> QED
    BY <2>2, <2>5
<1>2. Kept /\ Unmade
  <2>1. PICK old \in SUBSET Account : kit = [a \in Account |-> IF a \in old THEN a ELSE None]
                                      /\ saved = old /\ outdated = old \intersect Outdated
    OBVIOUS
  <2> QED
    BY <2>1 DEF Kept, Unmade, Secret
<1>3. Whole(settings)
  BY DEF Whole, Closed, SettingsRecord, Secret
<1>4. Numbered /\ Placed
  BY BoundAssumption DEF Numbered, Placed
<1>5. InForce /\ Truthful /\ Ticked
  BY DEF InForce, Truthful, Ticked, Boxes, Closed, Ready, Here
<1>6. OnceShownIsKept
  BY DEF OnceShownIsKept
<1> QED
  BY <1>1, <1>2, <1>3, <1>4, <1>5, <1>6 DEF ScreensInv

LEMMA ScreensStep ==
  ASSUME ScreensInv, [Next]_vars
  PROVE  ScreensInv'
<1> USE DEF ScreensInv
<1>1. Seated' /\ Kept' /\ Explained' /\ Whole(settings)'
  BY SeatedStep, KeptStep, ExplainedStep, WholeStep
<1>2. Numbered' /\ Placed' /\ Unmade'
  BY CallsStep, NumberedStep, PlacedStep, UnmadeStep
<1>3. InForce' /\ Truthful'
  BY InForceStep, TruthfulStep
<1>4. Ticked' /\ OnceShownIsKept'
  BY TickedStep, OnceShownStep
<1> QED
  BY <1>1, <1>2, <1>3, <1>4

\* The inductive invariant, whatever the person, the server and the network do and in
\* whatever order: who is in and what is on screen, whom each call still tells, which
\* codes are in force, what the person has saved and what was let go.
THEOREM ScreensInvariance == Spec => []ScreensInv
<1>1. Init => ScreensInv
  BY ScreensInit
<1>2. ScreensInv /\ [Next]_vars => ScreensInv'
  BY ScreensStep
<1> QED
  BY <1>1, <1>2, PTL DEF Spec

\* The state of the screens and of the sections of Settings is one their components
\* can be in: a key only in a section that is done, codes only while they are shown,
\* a box only where a key is, no section's state outside an open Settings.
THEOREM ScreensTypeCorrect == Spec => []TypeOK
<1>1. ScreensInv => TypeOK
  BY DEF ScreensInv, Seated, Kept, Explained, Whole, Numbered, TypeOK, SettingsRecord, RecoverRecord
<1> QED
  BY <1>1, ScreensInvariance, PTL

\* A secret the server will accept and the screens show once is saved, held for the
\* person, on its way to them, or gone in one of the ways the screens cannot prevent:
\* the boxes before CONTINUE and DONE, and the sections that take an answer only while
\* they are mounted, lose none.
THEOREM OnceShownKept == Spec => []OnceShownIsKept
<1>1. ScreensInv => OnceShownIsKept
  BY DEF ScreensInv
<1> QED
  BY <1>1, ScreensInvariance, PTL

\* The two-factor section says what is so, unless a write of the account is in flight
\* or was answered to nobody since the server was last asked.
THEOREM SettingsTruthful == Spec => []SettingsSayTruth
<1>1. ScreensInv => SettingsSayTruth
  <2>1. SUFFICES ASSUME ScreensInv, settings.open, ~Writing(who), who \notin unheard
                 PROVE  /\ settings.two = "off" => factor[who] = None
                        /\ settings.two \in {"on", "codes", "disabling"} => factor[who] # None
    BY DEF SettingsSayTruth
  <2>2. \A c \in calls : c.kind \in Writes => c.acct # who
    BY <2>1 DEF Writing
  <2>3. Ready("confirm") = {} /\ Ready("disable") = {}
    BY <2>1, <2>2 DEF ScreensInv, Placed, CallPlaced, Ready, Sections, Writes
  <2>4. /\ settings.two = "off" => factor[who] = None
        /\ settings.two \in {"on", "disabling"} => factor[who] # None
    BY <2>1, <2>2, <2>3 DEF ScreensInv, Truthful
  <2>5. settings.two = "codes" => factor[who] # None
    BY <2>1 DEF ScreensInv, InForce, Whole
  <2> QED
    BY <2>4, <2>5
<1> QED
  BY <1>1, ScreensInvariance, PTL

\* The notice on the unlock screen is about the lock that brought the person there,
\* through every order of locks, expired sessions, password changes whose answer comes
\* after another lock, and logins that are answered late.
THEOREM NoticeOfThisLock == Spec => []NoticeIsOfThisLock
<1>1. ScreensInv => NoticeIsOfThisLock
  <2>1. SUFFICES ASSUME ScreensInv, who = None, ~clearing, ~byDemo
                 PROVE  Notice \in {0, lockNo}
    BY DEF NoticeIsOfThisLock
  <2> QED
    BY <2>1 DEF ScreensInv, Explained, Notice
<1> QED
  BY <1>1, ScreensInvariance, PTL
=============================================================================
