------------------------------ MODULE ItemPanel ------------------------------
(***************************************************************************)
(* The vault screen of the browser: the list (Vault), the panel beside it  *)
(* that shows one entry or a blank one (ItemDetail, mounted by VaultLayout *)
(* under the key of the selection), and the three views of the shell (App).*)
(*                                                                         *)
(* The panel is remounted when the selection changes; a save or a delete   *)
(* it began goes on and, when it is answered, calls the onDone it was      *)
(* given: the selection is cleared whatever it is by then.  An entry is    *)
(* abstracted to its name and to whether the other fields were edited.     *)
(***************************************************************************)
EXTENDS Naturals, FiniteSets

CONSTANTS
  Item,          \* ids of vault items, generated by the server
  Name,          \* names an entry may be given, compared without case
  Op,            \* saves and deletes that may be in flight
  Fetch,         \* loads of the list that may be in flight
  View,          \* the views of the shell: bound
  MaxUnlocks,    \* bound on unlocks
  MaxPanelCalls, \* bound on saves and deletes
  NoName,        \* the empty name field
  Gone,          \* no such entry
  Hint,          \* selected === undefined: nothing is picked
  New            \* selected === null: a blank entry

ASSUME NameAssumption == NoName \notin Name /\ Gone \notin Name /\ NoName # Gone
ASSUME ViewAssumption == "vault" \in View /\ View \subseteq {"vault", "generator", "settings"}
ASSUME SelectionAssumption == Hint \notin Item /\ New \notin Item /\ Hint # New
ASSUME PanelBoundAssumption == MaxUnlocks \in Nat /\ MaxPanelCalls \in Nat

VARIABLES
  inside,     \* the unlocked application is on screen
  unlocks,    \* unlocks so far
  view,       \* the view of the shell
  selected,   \* what the panel shows
  form,       \* the draft: [name, edited]
  confirm,    \* the delete confirmation is open
  list,       \* items: the entries in memory, id -> name
  loading,    \* how the load of the list stands
  fetch,      \* the loads in flight: [stage, snap, live]
  call,       \* the saves and deletes in flight
  begunCalls, \* saves and deletes begun so far
  rows,       \* the server's entries, id -> name
  born,       \* ids the server has given out
  unseen,     \* history: a name was checked against a list that may lack one
  stale       \* history: a load of an earlier unlock replaced the list

screen    == <<inside, unlocks, view, selected, form, confirm>>
table     == <<rows, born>>
panelVars == <<screen, list, loading, fetch, call, begunCalls, table, unseen, stale>>

-----------------------------------------------------------------------------
Entries   == [Item -> Name \union {Gone}]
NoEntries == [i \in Item |-> Gone]
Quiet     == [stage |-> "idle", kind |-> "none", item |-> New, name |-> NoName, live |-> FALSE]
NoFetch   == [stage |-> "idle", snap |-> NoEntries, live |-> FALSE]

InFlight(o) == call[o].stage # "idle"
Fetching    == \E f \in Fetch : fetch[f].stage # "idle"
Listed(i)   == list[i] # Gone

\* base.site: the stored name of the entry the panel shows.
Base(s)  == IF s \in Item /\ list[s] # Gone THEN list[s] ELSE NoName
Dirty    == form.name # Base(selected) \/ form.edited
Untouched(s) == [name |-> Base(s), edited |-> FALSE]

\* Mutation of Busy: nothing keeps a second save from starting.
BusyNever == FALSE

\* saving || deleting, of the panel that is mounted now.
Busy == \E o \in Op : InFlight(o) /\ call[o].live

\* Mutation of Deletable: a blank entry has a DELETE button, too.
DeletableAlways == selected # Hint

\* itemId: there is something to delete.
Deletable == selected \in Item

NameTaken == \E i \in Item : i # selected /\ Listed(i) /\ list[i] = form.name

PanelInit ==
  /\ inside = FALSE /\ unlocks = 0 /\ view = "vault"
  /\ selected = Hint /\ form = [name |-> NoName, edited |-> FALSE] /\ confirm = FALSE
  /\ list = NoEntries /\ loading = "ready"
  /\ fetch = [f \in Fetch |-> NoFetch]
  /\ call = [o \in Op |-> Quiet]
  /\ rows \in {r \in Entries : \A i, j \in Item : i # j /\ r[i] = r[j] => r[i] = Gone}
  /\ born = {i \in Item : rows[i] # Gone} /\ begunCalls = 0
  /\ unseen = FALSE /\ stale = FALSE

-----------------------------------------------------------------------------
\* Every panel that is mounted now is gone afterwards.
Orphaned(calls) == [o \in Op |-> [calls[o] EXCEPT !.live = FALSE]]

(* setSelected: another key, so another panel, with a form of its own.     *)
Mount(s, calls) ==
  /\ selected' = s
  /\ form' = Untouched(s)
  /\ confirm' = FALSE
  /\ call' = Orphaned(calls)

StartLoad(f, others) ==
  /\ others[f].stage = "idle"
  /\ fetch' = [others EXCEPT ![f] = [stage |-> "sent", snap |-> NoEntries, live |-> TRUE]]
  /\ loading' = "loading"

(* The vault is unlocked and App swaps it in: the list mounts and loads.   *)
Unlock(f) ==
  /\ ~inside /\ unlocks < MaxUnlocks
  /\ inside' = TRUE /\ unlocks' = unlocks + 1
  /\ StartLoad(f, fetch)
  /\ UNCHANGED <<begunCalls, view, selected, form, confirm, list, call, table, unseen, stale>>

(* lock(): the items are dropped, the screens unmount, the view and the    *)
(* selection are reset.  Requests go on.                                   *)
LockVault ==
  /\ inside
  /\ inside' = FALSE /\ view' = "vault"
  /\ list' = NoEntries
  /\ Mount(Hint, call)
  /\ form' = [name |-> NoName, edited |-> FALSE]
  /\ fetch' = [f \in Fetch |-> [fetch[f] EXCEPT !.live = FALSE]]
  /\ unseen' = (unseen \/ Fetching \/ \E o \in Op : InFlight(o))
  /\ UNCHANGED <<begunCalls, unlocks, loading, table, stale>>

Navigate(v) ==
  /\ inside /\ view # v
  /\ view' = v
  /\ UNCHANGED <<begunCalls, inside, unlocks, selected, form, confirm, list, loading, fetch, call,
                 table, unseen, stale>>

-----------------------------------------------------------------------------
(* GET /api/vault: the server reads its rows.                              *)
FetchRead(f) ==
  /\ fetch[f].stage = "sent"
  /\ fetch' = [fetch EXCEPT ![f].stage = "read", ![f].snap = rows]
  /\ UNCHANGED <<begunCalls, screen, list, loading, call, table, unseen, stale>>

(* The rows are decrypted and replace the list, whoever is looking; the    *)
(* screen that asked stops loading if it is still there.                   *)
FetchSets(f) ==
  /\ fetch[f].stage = "read"
  /\ list' = fetch[f].snap
  /\ fetch' = [fetch EXCEPT ![f] = NoFetch]
  /\ loading' = IF fetch[f].live THEN "ready" ELSE loading
  /\ stale' = (stale \/ ~fetch[f].live)
  /\ UNCHANGED <<begunCalls, screen, call, table, unseen>>

(* The request fails, or a decryption does: after a lock there is no key.  *)
FetchFails(f) ==
  /\ fetch[f].stage \in {"sent", "read"}
  /\ fetch' = [fetch EXCEPT ![f] = NoFetch]
  /\ loading' = IF fetch[f].live THEN "failed" ELSE loading
  /\ UNCHANGED <<begunCalls, screen, list, call, table, unseen, stale>>

Retry(f) ==
  /\ inside /\ view = "vault" /\ loading = "failed"
  /\ StartLoad(f, fetch)
  /\ UNCHANGED <<begunCalls, screen, list, call, table, unseen, stale>>

-----------------------------------------------------------------------------
\* Rows are on screen only once the list is there.
Selectable == inside /\ view = "vault" /\ loading = "ready"

Select(i) ==
  /\ Selectable /\ Listed(i) /\ selected # i
  /\ Mount(i, call)
  /\ UNCHANGED <<begunCalls, inside, unlocks, view, list, loading, fetch, table, unseen, stale>>

(* ADD is there whatever the list does.                                    *)
AddItem ==
  /\ inside /\ view = "vault" /\ selected # New
  /\ Mount(New, call)
  /\ UNCHANGED <<begunCalls, inside, unlocks, view, list, loading, fetch, table, unseen, stale>>

(* onDone, from the X: the draft is given up.                              *)
Close ==
  /\ inside /\ view = "vault" /\ selected # Hint
  /\ Mount(Hint, call)
  /\ UNCHANGED <<begunCalls, inside, unlocks, view, list, loading, fetch, table, unseen, stale>>

(* Escape, heard on window whatever the view: the confirmation first, then *)
(* the panel, unless it holds edits.                                       *)
Escape ==
  /\ inside /\ selected # Hint
  /\ IF confirm
       THEN /\ confirm' = FALSE
            /\ UNCHANGED <<selected, form, call>>
       ELSE /\ ~Dirty
            /\ Mount(Hint, call)
  /\ UNCHANGED <<begunCalls, inside, unlocks, view, list, loading, fetch, table, unseen, stale>>

TypeName(n) ==
  /\ inside /\ view = "vault" /\ selected # Hint /\ form.name # n
  /\ form' = [form EXCEPT !.name = n]
  /\ UNCHANGED <<begunCalls, inside, unlocks, view, selected, confirm, list, loading, fetch, call,
                 table, unseen, stale>>

EditField ==
  /\ inside /\ view = "vault" /\ selected # Hint /\ ~form.edited
  /\ form' = [form EXCEPT !.edited = TRUE]
  /\ UNCHANGED <<begunCalls, inside, unlocks, view, selected, confirm, list, loading, fetch, call,
                 table, unseen, stale>>

(* USE THIS in the generator: the password lands in the panel that is      *)
(* open, or in a blank one, and the shell goes back to the vault.          *)
UseForged ==
  /\ inside /\ view = "generator"
  /\ view' = "vault"
  /\ IF selected = Hint
       THEN /\ selected' = New
            /\ form' = [name |-> NoName, edited |-> TRUE]
            /\ confirm' = FALSE
            /\ call' = Orphaned(call)
       ELSE /\ form' = [form EXCEPT !.edited = TRUE]
            /\ UNCHANGED <<selected, confirm, call>>
  /\ UNCHANGED <<begunCalls, inside, unlocks, list, loading, fetch, table, unseen, stale>>

AskDelete ==
  /\ inside /\ view = "vault" /\ Deletable /\ ~Busy /\ ~confirm
  /\ confirm' = TRUE
  /\ UNCHANGED <<begunCalls, inside, unlocks, view, selected, form, list, loading, fetch, call,
                 table, unseen, stale>>

-----------------------------------------------------------------------------
BeginCall(o, kind) ==
  /\ ~InFlight(o) /\ begunCalls < MaxPanelCalls
  /\ begunCalls' = begunCalls + 1
  /\ call' = [call EXCEPT ![o] = [stage |-> "sent", kind |-> kind, item |-> selected,
                                  name |-> form.name, live |-> TRUE]]
  \* The list lacks what a load or the call of an earlier panel has yet to bring.
  /\ unseen' = (unseen \/ Fetching \/ loading # "ready" 
              \/ \E p \in Op : InFlight(p) /\ ~call[p].live)
  /\ UNCHANGED <<screen, list, loading, fetch, table, stale>>

(* save: the name is not empty and not taken.                              *)
Save(o) ==
  /\ inside /\ view = "vault" /\ selected # Hint /\ ~Busy
  /\ form.name # NoName /\ ~NameTaken
  /\ BeginCall(o, IF selected = New THEN "add" ELSE "update")

(* remove, confirmed in the modal.                                         *)
Remove(o) ==
  /\ inside /\ confirm /\ Deletable
  /\ ~\E p \in Op : InFlight(p) /\ call[p].live /\ call[p].kind = "delete"
  /\ BeginCall(o, "delete")

(* The server does what it was asked: a new row gets a new id.             *)
ServeCall(o) ==
  /\ call[o].stage = "sent"
  /\ \/ /\ call[o].kind = "add"
        /\ \E i \in Item \ born :
             /\ rows' = [rows EXCEPT ![i] = call[o].name]
             /\ born' = born \union {i}
             /\ call' = [call EXCEPT ![o].stage = "served", ![o].item = i]
     \/ /\ call[o].kind # "add" /\ rows[call[o].item] # Gone
        /\ rows' = [rows EXCEPT ![call[o].item] =
                      IF call[o].kind = "update" THEN call[o].name ELSE Gone]
        /\ call' = [call EXCEPT ![o].stage = "served"]
        /\ UNCHANGED born
  /\ UNCHANGED <<begunCalls, screen, list, loading, fetch, unseen, stale>>

\* setItems of addItem, updateItem and deleteItem.
Applied(c) ==
  CASE c.kind = "add"    -> [list EXCEPT ![c.item] = c.name]
    [] c.kind = "update" -> IF Listed(c.item) THEN [list EXCEPT ![c.item] = c.name] ELSE list
    [] c.kind = "delete" -> [list EXCEPT ![c.item] = Gone]

\* Mutation of Done: only the panel that began the call is closed by its answer.
DoneIfLive(c, calls) ==
  IF c.live
    THEN Mount(Hint, calls)
    ELSE UNCHANGED <<selected, form, confirm>> /\ call' = calls

(* onDone of the panel that began the call: the selection is cleared, be   *)
(* it its own or one made since.                                           *)
Done(c, calls) ==
  IF selected = Hint
    THEN UNCHANGED <<selected, form, confirm>> /\ call' = calls
    ELSE Mount(Hint, calls)

CallAnswered(o) ==
  /\ call[o].stage = "served"
  /\ list' = Applied(call[o])
  /\ Done(call[o], [call EXCEPT ![o] = Quiet])
  /\ UNCHANGED <<begunCalls, inside, unlocks, view, loading, fetch, table, unseen, stale>>

(* The server refuses, or its answer is lost, done or not: the panel that  *)
(* asked keeps its draft and says so, with no confirmation in the way.     *)
CallFails(o) ==
  /\ InFlight(o)
  /\ confirm' = IF call[o].live /\ call[o].kind = "delete" THEN FALSE ELSE confirm
  /\ unseen' = (unseen \/ call[o].stage = "served")
  /\ call' = [call EXCEPT ![o] = Quiet]
  /\ UNCHANGED <<begunCalls, inside, unlocks, view, selected, form, list, loading, fetch, table, stale>>

-----------------------------------------------------------------------------
User ==
  \/ LockVault \/ AddItem \/ Close \/ Escape \/ EditField \/ UseForged \/ AskDelete
  \/ \E f \in Fetch : Unlock(f) \/ Retry(f)
  \/ \E v \in View : Navigate(v)
  \/ \E i \in Item : Select(i)
  \/ \E n \in Name \union {NoName} : TypeName(n)
  \/ \E o \in Op : Save(o) \/ Remove(o)

Answers ==
  \/ \E f \in Fetch : FetchRead(f) \/ FetchSets(f) \/ FetchFails(f)
  \/ \E o \in Op : ServeCall(o) \/ CallAnswered(o) \/ CallFails(o)

PanelNext == User \/ Answers

PanelSpec == PanelInit /\ [][PanelNext]_panelVars

-----------------------------------------------------------------------------
(* Properties *)

\* Every variable is of its kind; a save or delete of an entry names one.
PanelTypeOK ==
  /\ inside \in BOOLEAN /\ unlocks \in 0..MaxUnlocks
  /\ view \in View
  /\ selected \in Item \union {Hint, New}
  /\ form \in [name : Name \union {NoName}, edited : BOOLEAN]
  /\ confirm \in BOOLEAN /\ loading \in {"ready", "loading", "failed"}
  /\ {list, rows} \subseteq Entries /\ born \subseteq Item
  /\ begunCalls \in 0..MaxPanelCalls
  /\ \A f \in Fetch : /\ fetch[f].stage \in {"idle", "sent", "read"}
                      /\ fetch[f].snap \in Entries /\ fetch[f].live \in BOOLEAN
  /\ \A o \in Op : /\ call[o].stage \in {"idle", "sent", "served"}
                   /\ call[o].kind \in {"none", "add", "update", "delete"}
                   /\ call[o].item \in Item \union {New}
                   /\ call[o].kind \in {"update", "delete"} => call[o].item \in Item
                   /\ call[o].name \in Name \union {NoName} /\ call[o].live \in BOOLEAN
  /\ unseen \in BOOLEAN /\ stale \in BOOLEAN

\* The panel never shows an entry the list no longer has: its form would be
\* compared with nothing, and its SAVE be sent for a deleted row.  What holds it
\* up is that the answer to a delete closes every panel, also one that was opened
\* on the same entry since.  A load that an earlier unlock began is the exception.
PanelShowsListed == (selected \in Item /\ ~stale) => Listed(selected)

\* "Name uniqueness is enforced client-side": two entries of one name come only
\* from a name checked while a load, another save or a lost answer kept an entry
\* out of the list it was compared with.
NamesDistinct ==
  ~unseen => \A i, j \in Item : i # j /\ rows[i] # Gone => rows[i] # rows[j]
=============================================================================
