------------------------------ MODULE SetPages ------------------------------
(***************************************************************************)
(* Pages of Move's sets (host/shadow_set_pages.c). Move knows one          *)
(* directory of sets, Live here; the sets of every other page wait in a    *)
(* stash of that page. A page change is a thread that asks Move to save,   *)
(* renames every set of Live into the stash of the old page and every set  *)
(* of the new page's stash into Live, writes down the page and restarts    *)
(* Move, and with it the shim. Power may go between any two steps, a       *)
(* rename or the page file may fail, and Move saves what it has open when  *)
(* it likes.                                                               *)
(*                                                                         *)
(* A set is its name and the version of its newest save. The extended      *)
(* attributes travel with a rename and are left out, as is the song index. *)
(***************************************************************************)
EXTENDS Integers

CONSTANTS
  Sets,       \* UUIDs of sets
  NumPages,   \* SET_PAGES_TOTAL
  MaxSaves,   \* bound on the saves of a set
  MaxChanges, \* bound on the page changes asked for
  MaxFaults   \* bound on power cuts and failures of the system

ASSUME PagesAssumption ==
  /\ NumPages \in Nat \ {0}
  /\ MaxSaves \in Nat \ {0}
  /\ MaxChanges \in Nat
  /\ MaxFaults \in Nat

VARIABLES
  disk,        \* for each place and set, the version there, or Absent
  persisted,   \* what current_page.txt holds: a page, or Torn
  set_page_current,
  set_page_change_in_flight,
  thread,      \* where the change thread is
  old_page, new_page,  \* its arguments
  todo,        \* directories it has still to look at
  open_set,    \* the set Move has open, or NoSet
  newest,      \* history: the version last saved of each set
  home,        \* history: the page each set was made on
  changes, faults,  \* how many so far
  resaved,     \* history: Move saved during a change
  mixed        \* history: a fault or a save of Move hit a change half-way

thread_args == <<old_page, new_page>>
shimVars    == <<set_page_current, set_page_change_in_flight, thread,
                 thread_args, todo>>
historyVars == <<newest, home>>
vars == <<disk, persisted, shimVars, open_set, historyVars, changes, faults,
          resaved, mixed>>

Pages  == 0 .. NumPages - 1
Live   == NumPages
Places == Pages \cup {Live}
Absent == 0
Torn   == -1
NoSet  == "none"

In(place) == {s \in Sets : disk[place][s] # Absent}

(* set_page_read_persisted *)
PageOnDisk == IF persisted = Torn THEN 0 ELSE persisted

Init ==
  /\ disk = [p \in Places |-> [s \in Sets |-> Absent]]
  /\ persisted = Torn
  /\ set_page_current = 0
  /\ set_page_change_in_flight = FALSE
  /\ thread = "none"
  /\ old_page = 0 /\ new_page = 0
  /\ todo = {}
  /\ open_set = NoSet
  /\ newest = [s \in Sets |-> 0]
  /\ home = [s \in Sets |-> 0]
  /\ changes = 0 /\ faults = 0
  /\ resaved = FALSE
  /\ mixed = FALSE

-----------------------------------------------------------------------------
(* Move and its user. *)

Changing == thread # "none"

OpenSet(s) ==
  /\ s \in In(Live)
  /\ open_set' = s
  /\ UNCHANGED <<disk, persisted, shimVars, historyVars, changes, faults,
                 resaved, mixed>>

(* Saving writes the set's directory in Live, and makes it where it is not *)
(* there: a directory that is new may or may not be seen by a loop over    *)
(* Live that is running.                                                   *)
SaveTo(s) ==
  /\ newest[s] < MaxSaves
  /\ newest' = [newest EXCEPT ![s] = @ + 1]
  /\ disk' = [disk EXCEPT ![Live][s] = newest[s] + 1]
  /\ IF thread = "stash" /\ s \notin In(Live)
     THEN todo' \in {todo, todo \cup {s}}
     ELSE todo' = todo
  /\ resaved' = (resaved \/ (Changing /\ thread # "save"))
  /\ mixed' = (mixed \/ (Changing /\ thread # "save"))
  /\ UNCHANGED <<persisted, set_page_current, set_page_change_in_flight,
                 thread, thread_args, changes, faults>>

Save ==
  /\ open_set # NoSet
  /\ SaveTo(open_set)
  /\ UNCHANGED <<open_set, home>>

(* A new set belongs to the page whose sets Move has. *)
NewSet(s) ==
  /\ newest[s] = 0
  /\ SaveTo(s)
  /\ open_set' = s
  /\ home' = [home EXCEPT ![s] = PageOnDisk]

-----------------------------------------------------------------------------
(* shadow_change_set_page, from Shift+Volume+Left or Right *)

MayChange(page) ==
  /\ page \in Pages
  /\ page # set_page_current
  /\ ~set_page_change_in_flight
  /\ changes < MaxChanges

Neighbours == {set_page_current - 1, set_page_current + 1}

ChangePage(page) ==
  /\ MayChange(page)
  /\ changes' = changes + 1
  /\ set_page_current' = page
  /\ set_page_change_in_flight' = TRUE
  /\ old_page' = set_page_current
  /\ new_page' = page
  /\ thread' = "save"
  /\ UNCHANGED <<disk, persisted, todo, open_set, historyVars, faults,
                 resaved, mixed>>

(* Mutant: the flag is taken back when there is no thread. *)
ChangeFailsReopened(page) ==
  /\ MayChange(page)
  /\ faults < MaxFaults
  /\ changes' = changes + 1
  /\ faults' = faults + 1
  /\ set_page_current' = page
  /\ UNCHANGED <<disk, persisted, set_page_change_in_flight, thread,
                 thread_args, todo, open_set, historyVars, resaved, mixed>>

(* malloc or pthread_create fails: the page shown is the new one and the   *)
(* flag stays up until the next restart.                                   *)
ChangeFails(page) ==
  /\ MayChange(page)
  /\ faults < MaxFaults
  /\ changes' = changes + 1
  /\ faults' = faults + 1
  /\ set_page_current' = page
  /\ set_page_change_in_flight' = TRUE
  /\ UNCHANGED <<disk, persisted, thread, thread_args, todo, open_set,
                 historyVars, resaved, mixed>>

-----------------------------------------------------------------------------
(* set_page_change_thread *)

threadKeeps == <<persisted, set_page_current, set_page_change_in_flight,
                 thread_args, open_set, historyVars, changes, resaved>>

(* Move has saved when the call returns; the sets to move are read.        *)
Saved ==
  /\ thread = "save"
  /\ thread' = "stash"
  /\ todo' = In(Live)
  /\ UNCHANGED <<disk, faults, mixed, threadKeeps>>

(* Mutant: a set at the destination is replaced. *)
MoveOver(s, src, dst) ==
  disk' = [disk EXCEPT ![src][s] = Absent, ![dst][s] = disk[src][s]]

(* Mutant: the set is copied. *)
MoveCopy(s, src, dst) ==
  disk' = IF disk[dst][s] # Absent THEN disk
          ELSE [disk EXCEPT ![dst][s] = disk[src][s]]

(* set_page_move_dirs for one directory: what is at the destination stays. *)
MoveDir(s, src, dst) ==
  disk' = IF disk[dst][s] # Absent THEN disk
          ELSE [disk EXCEPT ![src][s] = Absent, ![dst][s] = disk[src][s]]

RenameFails ==
  /\ faults < MaxFaults
  /\ faults' = faults + 1
  /\ mixed' = TRUE
  /\ UNCHANGED disk

Moving(s, src, dst) ==
  /\ s \in todo
  /\ todo' = todo \ {s}
  /\ \/ MoveDir(s, src, dst) /\ UNCHANGED <<faults, mixed>>
     \/ RenameFails
  /\ UNCHANGED <<thread, threadKeeps>>

Stash(s)   == thread = "stash" /\ Moving(s, Live, old_page)
Restore(s) == thread = "restore" /\ Moving(s, new_page, Live)

Stashed ==
  /\ thread = "stash"
  /\ todo = {}
  /\ thread' = "restore"
  /\ todo' = In(new_page)
  /\ UNCHANGED <<disk, faults, mixed, threadKeeps>>

threadDone == <<disk, set_page_current, set_page_change_in_flight,
                thread_args, todo, open_set, historyVars, changes, faults,
                resaved, mixed>>

Restored ==
  /\ thread = "restore"
  /\ todo = {}
  /\ thread' = "persist"
  /\ UNCHANGED <<persisted, threadDone>>

(* set_page_persist truncates the file before it writes it. *)
Truncate ==
  /\ thread = "persist"
  /\ persisted' = Torn
  /\ thread' = "write"
  /\ UNCHANGED threadDone

(* Mutant: the page that was left is written. *)
PersistOld ==
  /\ thread = "write"
  /\ persisted' = old_page
  /\ thread' = "restart"
  /\ UNCHANGED threadDone

Persist ==
  /\ thread = "write"
  /\ persisted' = new_page
  /\ thread' = "restart"
  /\ UNCHANGED threadDone

(* The file cannot be opened, and keeps the old page; or it is truncated   *)
(* and cannot be written.  Nobody looks: Move is restarted all the same.   *)
PersistFails ==
  /\ thread \in {"persist", "write"}
  /\ faults < MaxFaults
  /\ faults' = faults + 1
  /\ mixed' = TRUE
  /\ thread' = "restart"
  /\ UNCHANGED <<disk, todo, threadKeeps>>

-----------------------------------------------------------------------------
(* The next start, of Move and of the shim in it. *)

Boot ==
  /\ set_page_current' = PageOnDisk
  /\ set_page_change_in_flight' = FALSE
  /\ thread' = "none"
  /\ todo' = {}
  /\ open_set' = NoSet
  /\ UNCHANGED <<disk, persisted, thread_args, historyVars, changes, resaved>>

Restart ==
  /\ thread = "restart"
  /\ Boot
  /\ UNCHANGED <<faults, mixed>>

(* Between the first rename and the end of the file the disk is neither    *)
(* of the old page nor of the new one.                                     *)
HalfWay == thread \in {"stash", "restore", "persist", "write"}

PowerCut ==
  /\ faults < MaxFaults
  /\ faults' = faults + 1
  /\ mixed' = (mixed \/ HalfWay)
  /\ Boot

-----------------------------------------------------------------------------

ThreadStep ==
  \/ Saved
  \/ \E s \in Sets : Stash(s) \/ Restore(s)
  \/ Stashed
  \/ Restored
  \/ Truncate
  \/ Persist
  \/ PersistFails
  \/ Restart

Next ==
  \/ \E s \in Sets : OpenSet(s) \/ NewSet(s)
  \/ Save
  \/ \E page \in Neighbours : ChangePage(page) \/ ChangeFails(page)
  \/ ThreadStep
  \/ PowerCut

Spec == Init /\ [][Next]_vars /\ WF_vars(ThreadStep)

-----------------------------------------------------------------------------
(* Properties *)

TypeOK ==
  /\ disk \in [Places -> [Sets -> Nat]]
  /\ persisted \in Pages \cup {Torn}
  /\ set_page_current \in Pages
  /\ set_page_change_in_flight \in BOOLEAN
  /\ thread \in {"none", "save", "stash", "restore", "persist", "write",
                 "restart"}
  /\ old_page \in Pages /\ new_page \in Pages
  /\ todo \subseteq Sets
  /\ open_set \in Sets \cup {NoSet}
  /\ newest \in [Sets -> Nat]
  /\ home \in [Sets -> Pages]
  /\ changes \in 0 .. MaxChanges /\ faults \in 0 .. MaxFaults
  /\ resaved \in BOOLEAN /\ mixed \in BOOLEAN

(* What was saved last of a set is on the disk, in Live or in a stash,     *)
(* whatever is cut off, fails or is saved at any step of any change.       *)
NewestKept ==
  \A s \in Sets : newest[s] > 0 => \E p \in Places : disk[p][s] = newest[s]

(* A set is in one place, unless Move saved it while a change was moving   *)
(* it: neither a power cut nor a failed rename leaves it in two.           *)
OnePlace ==
  ~resaved => \A s \in Sets, p, q \in Places :
                s \in In(p) /\ s \in In(q) => p = q

(* Between changes Live holds the sets made on the page that the file      *)
(* names, and every stash those of its page, unless a fault has hit a      *)
(* change in the middle. A change that got no thread shows a page that is  *)
(* not there; it lets no other change start from it.                       *)
PagesKept ==
  ~Changing /\ ~mixed =>
    \A s \in Sets, p \in Places :
      s \in In(p) <=> /\ newest[s] > 0
                      /\ p = IF home[s] = PageOnDisk THEN Live ELSE home[s]

(* A change that got its thread ends on the page asked for, with the next  *)
(* change allowed, unless the power is cut.                                *)
ChangeArrives ==
  \A page \in Pages :
    thread = "save" /\ new_page = page ~>
      ~set_page_change_in_flight /\ (set_page_current = page \/ faults > 0)
=============================================================================
