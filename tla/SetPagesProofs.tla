--------------------------- MODULE SetPagesProofs ---------------------------
(***************************************************************************)
(* No change of the page loses a set, for any number of sets, pages,       *)
(* changes and faults; where every set is when no fault has hit a change.  *)
(***************************************************************************)
EXTENDS SetPages, TLAPS

(* What the thread knows of the file and of the page shown. *)
ThreadInv ==
  /\ thread # "none" => set_page_change_in_flight
  /\ ~set_page_change_in_flight => set_page_current = PageOnDisk
  /\ thread \in {"save", "stash", "restore", "persist"} => old_page = PageOnDisk
  /\ thread = "restart" /\ ~mixed => new_page = PageOnDisk

(* A version on the disk was saved; what Move has open is in Live until a  *)
(* change takes it away, and the change ends with nothing open.            *)
DiskInv ==
  /\ \A s \in Sets, p \in Places : disk[p][s] # Absent => newest[s] > 0
  /\ thread \in {"none", "save"} /\ open_set # NoSet =>
       disk[Live][open_set] # Absent

(* Where a set is while the thread is where it is. *)
Where(s) ==
  CASE thread \in {"none", "save"} ->
         IF home[s] = PageOnDisk THEN Live ELSE home[s]
    [] thread = "stash" ->
         IF home[s] = old_page /\ s \in todo THEN Live ELSE home[s]
    [] thread = "restore" ->
         IF home[s] = new_page /\ s \notin todo THEN Live ELSE home[s]
    [] OTHER ->
         IF home[s] = new_page THEN Live ELSE home[s]

PlacesInv ==
  ~mixed => \A s \in Sets, p \in Places :
              disk[p][s] # Absent <=> newest[s] > 0 /\ p = Where(s)

PagesInv ==
  /\ TypeOK
  /\ ThreadInv
  /\ DiskInv
  /\ NewestKept
  /\ OnePlace
  /\ PlacesInv

-----------------------------------------------------------------------------

(* Live is not a page, and pages are few enough to be told from Torn.      *)
LEMMA PlaceFacts ==
  /\ Pages \subseteq Places
  /\ Live \in Places /\ Live \notin Pages
  /\ 0 \in Pages /\ Torn \notin Pages
BY PagesAssumption DEF Pages, Places, Live, Torn

LEMMA PagesInvInit == Init => PagesInv
<1> SUFFICES ASSUME Init PROVE PagesInv
  OBVIOUS
<1>1. TypeOK
  <2>1. 0 \in Pages
    BY PlaceFacts
  <2>2. disk \in [Places -> [Sets -> Nat]]
    BY DEF Init, Absent
  <2>3. /\ newest \in [Sets -> Nat]
        /\ home \in [Sets -> Pages]
    BY <2>1 DEF Init
  <2>4. changes \in 0 .. MaxChanges /\ faults \in 0 .. MaxFaults
    BY PagesAssumption DEF Init
  <2> QED BY <2>1, <2>2, <2>3, <2>4 DEF Init, TypeOK
<1>2. ThreadInv
  BY DEF Init, ThreadInv, PageOnDisk
<1>3. DiskInv /\ NewestKept /\ OnePlace /\ PlacesInv
  BY DEF Init, DiskInv, NewestKept, OnePlace, PlacesInv, In
<1> QED BY <1>1, <1>2, <1>3 DEF PagesInv

-----------------------------------------------------------------------------
(* The steps that change the disk. *)

(* Saving a set that is in Live, or that is nowhere yet. *)
LEMMA SaveToPreserves ==
  ASSUME PagesInv, NEW s \in Sets, SaveTo(s),
         open_set' \in Sets,
         open_set' = s,
         \/ home' = home /\ (thread \in {"none", "save"} => disk[Live][s] # Absent)
         \/ home' = [home EXCEPT ![s] = PageOnDisk] /\ newest[s] = 0
  PROVE  PagesInv'
<1> USE PlaceFacts DEF PagesInv
<1>1. /\ newest' = [newest EXCEPT ![s] = @ + 1]
      /\ disk' = [disk EXCEPT ![Live][s] = newest[s] + 1]
      /\ todo' \in {todo, todo \cup {s}}
      /\ thread # "stash" => todo' = todo
      /\ resaved' = (resaved \/ (Changing /\ thread # "save"))
      /\ mixed' = (mixed \/ (Changing /\ thread # "save"))
      /\ UNCHANGED <<persisted, set_page_current, set_page_change_in_flight,
                     thread, old_page, new_page, changes, faults>>
  BY DEF SaveTo, thread_args
<1>2. PageOnDisk \in Pages /\ PageOnDisk' = PageOnDisk
  BY <1>1 DEF TypeOK, PageOnDisk
<1>3. TypeOK'
  BY <1>1, <1>2 DEF TypeOK, Absent
<1>4. newest \in [Sets -> Nat] /\ disk \in [Places -> [Sets -> Nat]] /\ home \in [Sets -> Pages]
  BY DEF TypeOK
<1>5. /\ disk'[Live][s] = newest[s] + 1
      /\ newest'[s] = newest[s] + 1
      /\ \A r \in Sets, p \in Places :
           (r # s \/ p # Live) => disk'[p][r] = disk[p][r]
      /\ \A r \in Sets : r # s => newest'[r] = newest[r]
  BY <1>1, <1>4
<1>6. ThreadInv'
  BY <1>1, <1>2 DEF ThreadInv
<1>7. DiskInv'
  BY <1>1, <1>4, <1>5, SMTT(30) DEF DiskInv, Absent
<1>8. NewestKept'
  <2> SUFFICES ASSUME NEW r \in Sets, newest'[r] > 0
               PROVE  \E p \in Places : disk'[p][r] = newest'[r]
    BY DEF NewestKept
  <2>1. CASE r = s
    BY <1>5, <2>1
  <2>2. CASE r # s
    <3>1. PICK p \in Places : disk[p][r] = newest[r]
      BY <1>5, <2>2 DEF NewestKept
    <3> QED BY <1>5, <2>2, <3>1
  <2> QED BY <2>1, <2>2
<1>9. OnePlace'
  <2> SUFFICES ASSUME ~resaved', NEW r \in Sets, NEW p \in Places, NEW q \in Places,
                      disk'[p][r] # Absent, disk'[q][r] # Absent
               PROVE  p = q
    BY DEF OnePlace, In
  <2>1. ~resaved /\ thread \in {"none", "save"}
    BY <1>1 DEF Changing
  <2>2. \A x, y \in Places :
          disk[x][r] # Absent /\ disk[y][r] # Absent => x = y
    BY <2>1 DEF OnePlace, In
  <2>3. CASE r # s
    BY <2>2, <2>3, <1>5
  <2>4. CASE r = s
    <3>1. \A x \in Places : x # Live => disk[x][s] = Absent
      <4>1. CASE disk[Live][s] # Absent
        BY <4>1, <2>2, <2>4
      <4>2. CASE newest[s] = 0
        BY <4>2 DEF DiskInv
      <4> QED BY <4>1, <4>2, <2>1
    <3> QED BY <3>1, <2>4, <1>5
  <2> QED BY <2>3, <2>4
<1>10. PlacesInv'
  <2> SUFFICES ASSUME ~mixed', NEW r \in Sets, NEW p \in Places
               PROVE  disk'[p][r] # Absent <=> newest'[r] > 0 /\ p = Where(r)'
    BY DEF PlacesInv
  <2>1. ~mixed /\ thread \in {"none", "save"}
    BY <1>1 DEF Changing
  <2>2. \A q \in Sets : Where(q) = IF home[q] = PageOnDisk THEN Live ELSE home[q]
    BY <2>1 DEF Where
  <2>3. \A q \in Sets : Where(q)' = IF home'[q] = PageOnDisk THEN Live ELSE home'[q]
    BY <2>1, <1>1, <1>2 DEF Where
  <2>4. disk[p][r] # Absent <=> newest[r] > 0 /\ p = Where(r)
    BY <2>1 DEF PlacesInv
  <2>5. CASE r # s
    BY <2>2, <2>3, <2>4, <2>5, <1>4, <1>5
  <2>6. CASE r = s
    <3>1. Where(s)' = Live
      <4>1. CASE home' = home /\ disk[Live][s] # Absent
        BY <4>1, <2>1, <2>2, <2>3 DEF PlacesInv
      <4>2. CASE home' = [home EXCEPT ![s] = PageOnDisk]
        BY <4>2, <2>3, <1>4
      <4> QED BY <4>1, <4>2, <2>1
    <3>2. p # Live => disk[p][s] = Absent
      <4>1. CASE home' = home /\ disk[Live][s] # Absent
        BY <4>1, <2>1 DEF PlacesInv
      <4>2. CASE newest[s] = 0
        BY <4>2 DEF DiskInv
      <4> QED BY <4>1, <4>2, <2>1
    <3> QED BY <3>1, <3>2, <2>6, <1>4, <1>5 DEF Absent
  <2> QED BY <2>5, <2>6
<1> QED BY <1>3, <1>6, <1>7, <1>8, <1>9, <1>10

(* A directory is renamed, or is not. *)
LEMMA MovingPreserves ==
  ASSUME PagesInv, NEW s \in Sets,
         NEW src \in Places, NEW dst \in Places, Moving(s, src, dst),
         \/ thread = "stash" /\ src = Live /\ dst = old_page
         \/ thread = "restore" /\ src = new_page /\ dst = Live
  PROVE  PagesInv'
<1> USE PlaceFacts DEF PagesInv
<1>1. /\ s \in todo
      /\ todo' = todo \ {s}
      /\ \/ MoveDir(s, src, dst) /\ UNCHANGED <<faults, mixed>>
         \/ UNCHANGED disk /\ mixed' = TRUE /\ faults < MaxFaults /\ faults' = faults + 1
      /\ UNCHANGED <<thread, persisted, set_page_current,
                     set_page_change_in_flight, old_page, new_page, open_set,
                     newest, home, changes, resaved>>
  BY DEF Moving, RenameFails, threadKeeps, thread_args, historyVars
<1>2. PageOnDisk' = PageOnDisk /\ src # dst
  BY <1>1 DEF PageOnDisk, TypeOK
<1>3. newest \in [Sets -> Nat] /\ disk \in [Places -> [Sets -> Nat]] /\ home \in [Sets -> Pages]
  BY DEF TypeOK
<1>4. \/ disk' = disk
      \/ /\ disk' = [disk EXCEPT ![src][s] = Absent, ![dst][s] = disk[src][s]]
         /\ disk[dst][s] = Absent
  BY <1>1 DEF MoveDir
<1>5. \/ disk' = disk
      \/ /\ disk[dst][s] = Absent
         /\ disk'[src][s] = Absent /\ disk'[dst][s] = disk[src][s]
         /\ \A r \in Sets, p \in Places :
              (r # s \/ p \notin {src, dst}) => disk'[p][r] = disk[p][r]
  BY <1>2, <1>3, <1>4
<1>6. TypeOK'
  <2>1. disk' \in [Places -> [Sets -> Nat]]
    <3>1. /\ disk[src][s] \in Nat /\ Absent \in Nat
          /\ disk[src] \in [Sets -> Nat] /\ disk[dst] \in [Sets -> Nat]
      BY <1>3 DEF Absent
    <3>2. /\ [disk[src] EXCEPT ![s] = Absent] \in [Sets -> Nat]
          /\ [disk[dst] EXCEPT ![s] = disk[src][s]] \in [Sets -> Nat]
      BY <3>1
    <3> HIDE DEF PagesInv
    <3>3. CASE disk' = disk
      BY <3>3, <1>3
    <3>4. CASE disk' = [disk EXCEPT ![src] = [disk[src] EXCEPT ![s] = Absent],
                                    ![dst] = [disk[dst] EXCEPT ![s] = disk[src][s]]]
      BY <3>2, <3>4, <1>3
    <3> QED BY <3>3, <3>4, <1>2, <1>3, <1>4
  <2>2. faults' \in 0 .. MaxFaults
    <3>1. faults \in 0 .. MaxFaults
      BY DEF TypeOK
    <3> QED BY <1>1, <3>1, PagesAssumption
  <2>4. mixed' \in BOOLEAN
    BY <1>1 DEF TypeOK
  <2>3. todo' \subseteq Sets
    BY <1>1 DEF TypeOK
  <2> QED BY <2>1, <2>2, <2>3, <2>4, <1>1 DEF TypeOK
<1>7. ThreadInv'
  BY <1>1, <1>2 DEF ThreadInv
<1>8. DiskInv'
  BY <1>1, <1>5 DEF DiskInv
<1>9. NewestKept'
  <2> SUFFICES ASSUME NEW r \in Sets, newest[r] > 0
               PROVE  \E p \in Places : disk'[p][r] = newest[r]
    BY <1>1 DEF NewestKept
  <2>1. PICK p \in Places : disk[p][r] = newest[r]
    BY DEF NewestKept
  <2>2. CASE r = s /\ p = src
    BY <2>1, <2>2, <1>5
  <2>3. CASE r = s /\ p = dst
    BY <2>1, <2>3, <1>5, <1>3 DEF Absent
  <2>4. CASE r # s \/ p \notin {src, dst}
    BY <2>1, <2>4, <1>5
  <2> QED BY <2>2, <2>3, <2>4
<1>10. OnePlace'
  BY <1>1, <1>5 DEF OnePlace, In
<1>11. PlacesInv'
  <2> SUFFICES ASSUME ~mixed', NEW r \in Sets, NEW p \in Places
               PROVE  disk'[p][r] # Absent <=> newest[r] > 0 /\ p = Where(r)'
    BY <1>1 DEF PlacesInv
  <2>1. ~mixed /\ MoveDir(s, src, dst)
    BY <1>1
  <2>2. \A q \in Sets, x \in Places :
          disk[x][q] # Absent <=> newest[q] > 0 /\ x = Where(q)
    BY <2>1 DEF PlacesInv
  <2>3. CASE r # s
    <3>1. Where(r)' = Where(r)
      BY <1>1, <1>2, <2>3 DEF Where
    <3>2. disk'[p][r] = disk[p][r]
      BY <1>5, <2>3
    <3> QED BY <3>1, <3>2, <2>2
  <2>4. CASE r = s
    <3>1. CASE thread = "stash"
      <4>1. Where(s) = IF home[s] = old_page THEN Live ELSE home[s]
        BY <3>1, <1>1 DEF Where
      <4>2. Where(s)' = home[s]
        BY <3>1, <1>1 DEF Where
      <4>3. src = Live /\ dst = old_page /\ home[s] \in Pages
        BY <3>1, <1>3
      <4>4. disk[dst][s] = Absent
        BY <4>1, <4>3, <2>2
      <4>5. disk'[src][s] = Absent /\ disk'[dst][s] = disk[src][s]
        BY <4>4, <2>1, <1>2, <1>3 DEF MoveDir
      <4> QED BY <4>1, <4>2, <4>3, <4>5, <2>2, <2>4, <1>5
    <3>2. CASE thread = "restore"
      <4>1. Where(s) = home[s]
        BY <3>2, <1>1 DEF Where
      <4>2. Where(s)' = IF home[s] = new_page THEN Live ELSE home[s]
        BY <3>2, <1>1 DEF Where
      <4>3. src = new_page /\ dst = Live /\ home[s] \in Pages
        BY <3>2, <1>3
      <4>4. disk[dst][s] = Absent
        BY <4>1, <4>3, <2>2
      <4>5. disk'[src][s] = Absent /\ disk'[dst][s] = disk[src][s]
        BY <4>4, <2>1, <1>2, <1>3 DEF MoveDir
      <4> QED BY <4>1, <4>2, <4>3, <4>5, <2>2, <2>4, <1>5
    <3> QED BY <3>1, <3>2
  <2> QED BY <2>3, <2>4
<1> QED BY <1>6, <1>7, <1>8, <1>9, <1>10, <1>11

-----------------------------------------------------------------------------
(* The steps that leave the disk alone. *)

LEMMA DiskUntouched ==
  ASSUME PagesInv, UNCHANGED <<disk, newest, home, resaved>>
  PROVE  NewestKept' /\ OnePlace'
BY DEF PagesInv, NewestKept, OnePlace, In

(* The next start finds the file and nothing open. *)
LEMMA BootPreserves ==
  ASSUME PagesInv, Boot, faults' \in 0 .. MaxFaults, mixed' \in BOOLEAN,
         mixed' = (mixed \/ HalfWay)
  PROVE  PagesInv'
<1> USE PlaceFacts DEF PagesInv
<1>1. /\ set_page_current' = PageOnDisk
      /\ set_page_change_in_flight' = FALSE
      /\ thread' = "none"
      /\ todo' = {}
      /\ open_set' = NoSet
      /\ UNCHANGED <<disk, persisted, old_page, new_page, newest, home,
                     changes, resaved>>
  BY DEF Boot, thread_args, historyVars
<1>2. PageOnDisk \in Pages /\ PageOnDisk' = PageOnDisk
  BY <1>1 DEF TypeOK, PageOnDisk
<1>3. TypeOK'
  BY <1>1, <1>2 DEF TypeOK
<1>4. ThreadInv' /\ DiskInv'
  BY <1>1, <1>2 DEF ThreadInv, DiskInv
<1>5. NewestKept' /\ OnePlace'
  BY <1>1, DiskUntouched
<1>6. PlacesInv'
  <2> SUFFICES ASSUME ~mixed', NEW s \in Sets
               PROVE  Where(s)' = Where(s)
    BY <1>1 DEF PlacesInv
  <2>1. thread \in {"none", "save", "restart"}
    BY DEF HalfWay, TypeOK
  <2>2. Where(s)' = IF home[s] = PageOnDisk THEN Live ELSE home[s]
    BY <1>1, <1>2 DEF Where
  <2> QED BY <2>1, <2>2 DEF Where, ThreadInv
<1> QED BY <1>3, <1>4, <1>5, <1>6

LEMMA ChangePreserves ==
  ASSUME PagesInv, NEW page \in Neighbours,
         ChangePage(page) \/ ChangeFails(page)
  PROVE  PagesInv'
<1> USE PlaceFacts DEF PagesInv
<1>1. /\ page \in Pages /\ ~set_page_change_in_flight
      /\ changes < MaxChanges /\ changes' = changes + 1
      /\ set_page_current' = page
      /\ set_page_change_in_flight' = TRUE
      /\ UNCHANGED <<disk, persisted, todo, open_set, newest, home, resaved,
                     mixed>>
      /\ \/ /\ old_page' = set_page_current /\ new_page' = page
            /\ thread' = "save" /\ faults' = faults
         \/ /\ UNCHANGED <<old_page, new_page, thread>>
            /\ faults < MaxFaults /\ faults' = faults + 1
  BY DEF ChangePage, ChangeFails, MayChange, thread_args, historyVars
<1>2. thread = "none" /\ set_page_current = PageOnDisk
  BY <1>1 DEF ThreadInv
<1>3. PageOnDisk' = PageOnDisk
  BY <1>1 DEF PageOnDisk
<1>4. TypeOK'
  BY <1>1, PagesAssumption DEF TypeOK
<1>5. ThreadInv'
  BY <1>1, <1>2, <1>3 DEF ThreadInv
<1>6. DiskInv'
  BY <1>1, <1>2 DEF DiskInv
<1>7. NewestKept' /\ OnePlace'
  BY <1>1, DiskUntouched
<1>8. PlacesInv'
  <2>1. \A s \in Sets : Where(s)' = Where(s)
    BY <1>1, <1>2, <1>3 DEF Where
  <2> QED BY <2>1, <1>1 DEF PlacesInv
<1> QED BY <1>4, <1>5, <1>6, <1>7, <1>8

(* From one part of the thread to the next. *)
LEMMA ThreadPreserves ==
  ASSUME PagesInv, Saved \/ Stashed \/ Restored \/ Truncate \/ Persist
  PROVE  PagesInv'
<1> USE PlaceFacts DEF PagesInv
<1>1. /\ UNCHANGED <<disk, set_page_current, set_page_change_in_flight,
                     old_page, new_page, open_set, newest, home, changes,
                     faults, resaved, mixed>>
      /\ \/ /\ thread = "save" /\ thread' = "stash"
            /\ todo' = In(Live) /\ persisted' = persisted
         \/ /\ thread = "stash" /\ todo = {} /\ thread' = "restore"
            /\ todo' = In(new_page) /\ persisted' = persisted
         \/ /\ thread = "restore" /\ todo = {} /\ thread' = "persist"
            /\ todo' = todo /\ persisted' = persisted
         \/ /\ thread = "persist" /\ thread' = "write"
            /\ todo' = todo /\ persisted' = Torn
         \/ /\ thread = "write" /\ thread' = "restart"
            /\ todo' = todo /\ persisted' = new_page
  BY DEF Saved, Stashed, Restored, Truncate, Persist, threadKeeps, threadDone,
         thread_args, historyVars
<1>2. TypeOK'
  BY <1>1 DEF TypeOK, In
<1>3. ThreadInv'
  BY <1>1 DEF ThreadInv, PageOnDisk, TypeOK
<1>4. DiskInv'
  BY <1>1 DEF DiskInv
<1>5. NewestKept' /\ OnePlace'
  BY <1>1, DiskUntouched
<1>6. PlacesInv'
  <2> SUFFICES ASSUME ~mixed, NEW s \in Sets, NEW p \in Places,
                      disk[p][s] # Absent <=> newest[s] > 0 /\ p = Where(s)
               PROVE  disk[p][s] # Absent <=> newest[s] > 0 /\ p = Where(s)'
    BY <1>1 DEF PlacesInv
  <2>1. newest[s] > 0 => Where(s)' = Where(s)
    <3> SUFFICES ASSUME newest[s] > 0 PROVE Where(s)' = Where(s)
      OBVIOUS
    <3>0. home[s] \in Pages /\ old_page \in Pages /\ new_page \in Pages
      BY DEF TypeOK
    <3>1. CASE thread = "save" /\ thread' = "stash" /\ todo' = In(Live)
      <4>1. s \in In(Live) <=> Live = Where(s)
        BY DEF PlacesInv, In
      <4>2. Where(s) = IF home[s] = old_page THEN Live ELSE home[s]
        BY <3>1 DEF Where, ThreadInv
      <4>3. Where(s)' = IF home[s] = old_page /\ s \in In(Live) THEN Live ELSE home[s]
        BY <3>1, <1>1 DEF Where
      <4> QED BY <3>0, <4>1, <4>2, <4>3
    <3>2. CASE thread = "stash" /\ todo = {} /\ thread' = "restore" /\ todo' = In(new_page)
      <4>1. s \in In(new_page) <=> new_page = Where(s)
        BY <3>0 DEF PlacesInv, In
      <4>2. Where(s) = home[s]
        BY <3>2 DEF Where
      <4>3. Where(s)' = IF home[s] = new_page /\ s \notin In(new_page) THEN Live ELSE home[s]
        BY <3>2, <1>1 DEF Where
      <4> QED BY <4>1, <4>2, <4>3
    <3>3. CASE thread = "restore" /\ todo = {} /\ thread' = "persist"
      BY <3>3, <1>1 DEF Where
    <3>4. CASE \/ thread = "persist" /\ thread' = "write"
               \/ thread = "write" /\ thread' = "restart"
      BY <3>4, <1>1 DEF Where
    <3> QED BY <1>1, <3>1, <3>2, <3>3, <3>4
  <2> QED BY <2>1
<1> QED BY <1>2, <1>3, <1>4, <1>5, <1>6

(* The page file is not written: the fault is noted, nothing else moves.   *)
LEMMA PersistFailsPreserves ==
  ASSUME PagesInv, PersistFails
  PROVE  PagesInv'
<1> USE DEF PagesInv
<1>1. /\ thread \in {"persist", "write"} /\ thread' = "restart"
      /\ faults < MaxFaults /\ faults' = faults + 1 /\ mixed' = TRUE
      /\ UNCHANGED <<disk, todo, persisted, set_page_current,
                     set_page_change_in_flight, old_page, new_page, open_set,
                     newest, home, changes, resaved>>
  BY DEF PersistFails, threadKeeps, thread_args, historyVars
<1>2. TypeOK'
  BY <1>1, PagesAssumption DEF TypeOK
<1>3. ThreadInv' /\ DiskInv'
  BY <1>1 DEF ThreadInv, DiskInv, PageOnDisk
<1>4. NewestKept' /\ OnePlace'
  BY <1>1, DiskUntouched
<1>5. PlacesInv'
  BY <1>1 DEF PlacesInv
<1> QED BY <1>2, <1>3, <1>4, <1>5

LEMMA PagesInvNext == PagesInv /\ [Next]_vars => PagesInv'
<1> SUFFICES ASSUME PagesInv, [Next]_vars PROVE PagesInv'
  OBVIOUS
<1> USE PlaceFacts
<1>1. ASSUME NEW s \in Sets, OpenSet(s) PROVE PagesInv'
  <2>1. /\ disk[Live][s] # Absent /\ open_set' = s
        /\ UNCHANGED <<disk, persisted, set_page_current, todo,
                       set_page_change_in_flight, thread, old_page, new_page,
                       newest, home, changes, faults, resaved, mixed>>
    BY <1>1 DEF OpenSet, In, shimVars, thread_args, historyVars
  <2>2. TypeOK' /\ ThreadInv' /\ DiskInv'
    BY <2>1 DEF PagesInv, TypeOK, ThreadInv, DiskInv, PageOnDisk
  <2>3. NewestKept' /\ OnePlace'
    BY <2>1, DiskUntouched
  <2>4. PlacesInv'
    BY <2>1 DEF PagesInv, PlacesInv, Where, PageOnDisk
  <2> QED BY <2>2, <2>3, <2>4 DEF PagesInv
<1>2. ASSUME NEW s \in Sets, NewSet(s) PROVE PagesInv'
  BY <1>2, SaveToPreserves DEF NewSet
<1>3. ASSUME Save PROVE PagesInv'
  <2>1. open_set \in Sets /\ SaveTo(open_set) /\ open_set' = open_set /\ home' = home
    BY <1>3 DEF Save, PagesInv, TypeOK
  <2>2. thread \in {"none", "save"} => disk[Live][open_set] # Absent
    BY <1>3 DEF Save, PagesInv, DiskInv
  <2> QED BY <2>1, <2>2, SaveToPreserves
<1>4. ASSUME NEW page \in Neighbours, ChangePage(page) \/ ChangeFails(page)
      PROVE  PagesInv'
  BY <1>4, ChangePreserves
<1>5. ASSUME NEW s \in Sets, Stash(s) \/ Restore(s) PROVE PagesInv'
  <2>1. old_page \in Places /\ new_page \in Places
    BY DEF PagesInv, TypeOK
  <2> QED BY <1>5, <2>1, MovingPreserves DEF Stash, Restore
<1>6. ASSUME Saved \/ Stashed \/ Restored \/ Truncate \/ Persist
      PROVE  PagesInv'
  BY <1>6, ThreadPreserves
<1>7. CASE Restart
  <2>1. Boot /\ faults' = faults /\ mixed' = mixed /\ thread = "restart"
    BY <1>7 DEF Restart
  <2>2. mixed' \in BOOLEAN /\ mixed' = (mixed \/ HalfWay) /\ faults' \in 0 .. MaxFaults
    BY <2>1 DEF PagesInv, TypeOK, HalfWay
  <2> QED BY <2>1, <2>2, BootPreserves
<1>8. CASE PowerCut
  <2>1. /\ Boot /\ faults < MaxFaults /\ faults' = faults + 1
        /\ mixed' = (mixed \/ HalfWay)
    BY <1>8 DEF PowerCut
  <2>2. faults' \in 0 .. MaxFaults
    BY <2>1, PagesAssumption DEF PagesInv, TypeOK
  <2>3. mixed' \in BOOLEAN
    BY <2>1 DEF HalfWay
  <2> QED BY <2>1, <2>2, <2>3, BootPreserves
<1>9. CASE UNCHANGED vars
  BY <1>9 DEF vars, shimVars, thread_args, historyVars, PagesInv, TypeOK,
              ThreadInv, DiskInv, NewestKept, OnePlace, PlacesInv, Where,
              PageOnDisk, In
<1>10. CASE PersistFails
  BY <1>10, PersistFailsPreserves
<1> QED BY <1>1, <1>2, <1>3, <1>4, <1>5, <1>6, <1>7, <1>8, <1>9, <1>10
        DEF Next, ThreadStep

-----------------------------------------------------------------------------

(* The invariant of a page change. *)
THEOREM PagesInvariance == Spec => []PagesInv
BY PagesInvInit, PagesInvNext, PTL DEF Spec

(* What was saved last of a set stays on the disk: shadow_set_pages.c      *)
(* loses no set, wherever a change is cut off, and whichever rename or     *)
(* write of the page file fails.                                           *)
THEOREM NewestAlwaysKept == Spec => []NewestKept
<1>1. PagesInv => NewestKept
  BY DEF PagesInv
<1> QED BY <1>1, PagesInvariance, PTL

(* Unless Move saved it in the middle of a change, a set is in one place.  *)
THEOREM AlwaysOnePlace == Spec => []OnePlace
<1>1. PagesInv => OnePlace
  BY DEF PagesInv
<1> QED BY <1>1, PagesInvariance, PTL

(* Between changes that no fault has hit, Live and the stashes hold what   *)
(* the page file says.                                                     *)
THEOREM PagesAlwaysKept == Spec => []PagesKept
<1>1. PagesInv => PagesKept
  BY DEF PagesInv, PagesKept, PlacesInv, Where, Changing, In
<1> QED BY <1>1, PagesInvariance, PTL
=============================================================================
