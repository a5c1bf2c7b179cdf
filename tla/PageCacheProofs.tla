--------------------------- MODULE PageCacheProofs ---------------------------
(***************************************************************************)
(* Proofs about PageCache for any number of files, blocks, pages and       *)
(* contents.  Two inductive invariants: EngineInv, for the configuration   *)
(* of the README (one block per page, no eviction), ties the item's table, *)
(* the engine's maps, the pages and the disk together; PagesInv, for every *)
(* configuration, is about the pages, the free list and the LRU list.      *)
(***************************************************************************)
EXTENDS PageCache, FiniteSetTheorems, TLAPS, WellFoundedInduction

\* A page has one slot, at offset 0.
LEMMA OneSlot ==
    ASSUME OneBlockNoEviction
    PROVE  Slots = {0} /\ NoSlot \notin Slots
BY DEF OneBlockNoEviction, Slots, NoSlot

\* Pages, entries and tables are well typed as reset leaves them.
LEMMA ResetTypes ==
    /\ ResetPage(NONE) \in Page
    /\ NoEntry \in Entry
    /\ NoBlocks \in [Blocks -> Pages \cup {NoPage}]
    /\ NoEntries \in [Blocks -> Entry]
BY PageCacheAssumption DEF ResetPage, Page, NoEntry, Entry, NoBlocks, NoEntries, Slots

-----------------------------------------------------------------------------

LEMMA InitInv ==
    ASSUME OneBlockNoEviction, Init
    PROVE  EngineInv
<1>1. TypeOK
  <2>1. page \in [Pages -> Page] /\ ordered \in [Owners -> [Blocks -> Entry]]
        /\ blocks \in [Owners -> [Blocks -> Pages \cup {NoPage}]]
    BY ResetTypes DEF Init
  <2>2. disk \in [Owners -> [Blocks -> Values]] /\ reply \in Values
    BY PageCacheAssumption DEF Init
  <2>3. owner_free \in [Owners -> Seq(Pages)] /\ lru \in Seq(Pages)
    BY DEF Init
  <2>. QED
    BY <2>1, <2>2, <2>3 DEF Init, TypeOK
<1>2. \A o \in Owners, b \in Blocks : ~is_block_cached(o, b)
  BY DEF Init, is_block_cached, NoBlocks
<1>3. FreeXorOwned
  BY PageCacheAssumption DEF Init, FreeXorOwned, ResetPage
<1>4. TablesAgree
  BY <1>2, PageCacheAssumption DEF Init, TablesAgree, NoEntries, ResetPage
<1>5. PagesHoldOneBlock
  BY DEF Init, PagesHoldOneBlock
<1>6. OwnersHaveItems
  BY DEF Init, OwnersHaveItems, NoBlocks
<1>7. FlagsAgree
  BY <1>2 DEF FlagsAgree
<1>8. NeverThrows
  BY DEF Init, NeverThrows
<1>. QED
  BY <1>1, <1>3, <1>4, <1>5, <1>6, <1>7, <1>8 DEF EngineInv

\* Steps that leave the engine and the items alone.
LEMMA CreateItemInv ==
    ASSUME OneBlockNoEviction, EngineInv, NEW o \in Owners, CreateItem(o)
    PROVE  EngineInv'
<1>1. TypeOK'
  BY DEF EngineInv, TypeOK, CreateItem, engineVars
<1>2. FreeXorOwned'
  BY DEF EngineInv, CreateItem, engineVars, FreeXorOwned
<1>3. TablesAgree'
  BY DEF EngineInv, CreateItem, engineVars, TablesAgree, is_block_cached, contains_block
<1>4. PagesHoldOneBlock'
  BY DEF EngineInv, CreateItem, engineVars, PagesHoldOneBlock, contains_block
<1>5. OwnersHaveItems'
  BY DEF EngineInv, CreateItem, engineVars, OwnersHaveItems, is_block_cached, contains_block
<1>6. FlagsAgree'
  BY DEF EngineInv, CreateItem, engineVars, FlagsAgree, is_block_cached, contains_block
<1>7. NeverThrows'
  BY DEF EngineInv, CreateItem, NeverThrows
<1>. QED
  BY <1>1, <1>2, <1>3, <1>4, <1>5, <1>6, <1>7 DEF EngineInv

\* Reads change only the reply; the LRU list is not used without eviction.
LEMMA ReadInv ==
    ASSUME OneBlockNoEviction, EngineInv, NEW o \in Owners, NEW b \in Blocks,
           ReadHit(o, b) \/ ReadMiss(o, b)
    PROVE  EngineInv'
<1>1. reply' \in Values
  BY DEF EngineInv, TypeOK, ReadHit, ReadMiss, is_block_cached, contains_block, Page
<1>2. UNCHANGED <<itemVars, page, engineVars, lru, disk, terminated>>
  BY DEF OneBlockNoEviction, ReadHit, ReadMiss, lru_visit
<1>3. TypeOK'
  BY <1>1, <1>2 DEF EngineInv, TypeOK, itemVars, engineVars
<1>4. FreeXorOwned' /\ TablesAgree' /\ PagesHoldOneBlock'
  BY <1>2 DEF EngineInv, itemVars, engineVars, FreeXorOwned, TablesAgree,
              PagesHoldOneBlock, is_block_cached, contains_block
<1>5. OwnersHaveItems' /\ FlagsAgree' /\ NeverThrows'
  BY <1>2 DEF EngineInv, itemVars, engineVars, OwnersHaveItems, FlagsAgree,
              NeverThrows, is_block_cached, contains_block
<1>. QED
  BY <1>3, <1>4, <1>5 DEF EngineInv

\* A block that is not cached has no page in its item.
LEMMA UncachedHasNoPage ==
    ASSUME EngineInv, NEW o \in Owners, NEW b \in Blocks, ~is_block_cached(o, b)
    PROVE  blocks[o][b] = NoPage
BY DEF EngineInv, OwnersHaveItems

\* Writes that bypass the cache.
LEMMA WriteBelowInv ==
    ASSUME OneBlockNoEviction, EngineInv, NEW o \in Owners, NEW b \in Blocks,
           NEW v \in Values, PutFull(o, b, v) \/ WriteThrough(o, b, v)
    PROVE  EngineInv'
<1>1. blocks' = blocks
  BY UncachedHasNoPage DEF EngineInv, TypeOK, PutFull, WriteThrough, itemVars
<1>2. contents \subseteq contents' /\ contents' \subseteq Owners
  BY DEF EngineInv, TypeOK, PutFull, WriteThrough, itemVars
<1>3. ~is_block_cached(o, b) /\ disk' = [disk EXCEPT ![o][b] = v]
  BY DEF PutFull, WriteThrough
<1>4. UNCHANGED <<data_synced, page, engineVars, lru, reply, terminated>>
  BY DEF PutFull, WriteThrough, itemVars
<1>5. TypeOK'
  BY <1>1, <1>2, <1>3, <1>4 DEF EngineInv, TypeOK, engineVars
<1>6. FreeXorOwned' /\ TablesAgree' /\ PagesHoldOneBlock'
  BY <1>1, <1>4 DEF EngineInv, engineVars, FreeXorOwned, TablesAgree,
              PagesHoldOneBlock, is_block_cached, contains_block
<1>7. OwnersHaveItems' /\ NeverThrows'
  BY <1>1, <1>2, <1>4 DEF EngineInv, engineVars, OwnersHaveItems,
              NeverThrows, is_block_cached, contains_block
<1>8. FlagsAgree'
  <2>. SUFFICES ASSUME NEW x \in Owners, NEW c \in Blocks, is_block_cached(x, c)'
                PROVE  LET pg == page[blocks[x][c]]
                       IN  /\ pg.dirty <=> ~ordered[x][c].synced
                           /\ pg.dirty => ~data_synced[x]
                           /\ ~pg.dirty => pg.data[pg.off[c]] = disk'[x][c]
    BY <1>1, <1>4 DEF FlagsAgree, engineVars
  <2>1. is_block_cached(x, c)
    BY <1>1, <1>4 DEF is_block_cached, contains_block
  <2>2. disk'[x][c] = disk[x][c]
    BY <1>3, <2>1 DEF EngineInv, TypeOK
  <2>. QED
    BY <2>1, <2>2 DEF EngineInv, FlagsAgree
<1>. QED
  BY <1>5, <1>6, <1>7, <1>8 DEF EngineInv

\* A write to a cached block.
LEMMA PutHitInv ==
    ASSUME OneBlockNoEviction, EngineInv, NEW o \in Owners, NEW b \in Blocks,
           NEW v \in Values, PutHit(o, b, v)
    PROVE  EngineInv'
<1>. DEFINE p == blocks[o][b]
            s == page[p].off[b]
<1>1. p \in Pages /\ page[p] \in Page /\ page[p].owner = o /\ s \in Slots
  BY DEF EngineInv, TypeOK, PutHit, is_block_cached, contains_block, Page
<1>2. page' = [page EXCEPT ![p] = [page[p] EXCEPT !.dirty = TRUE, !.data[s] = v]]
  BY DEF PutHit
<1>3. page' \in [Pages -> Page]
  BY <1>1, <1>2 DEF EngineInv, TypeOK, Page
<1>4. /\ \A q \in Pages : /\ page'[q].owner = page[q].owner
                          /\ page'[q].off = page[q].off
                          /\ page'[q].free = page[q].free
      /\ \A q \in Pages : q # p => page'[q] = page[q]
      /\ page'[p].dirty /\ page'[p].data = [page[p].data EXCEPT ![s] = v]
  BY <1>1, <1>2 DEF EngineInv, TypeOK, Page
<1>5. ordered' = [ordered EXCEPT ![o][b].synced = FALSE]
  BY DEF PutHit
<1>6. /\ \A x \in Owners, c \in Blocks : /\ ordered'[x][c].page = ordered[x][c].page
                                         /\ ordered'[x][c].off = ordered[x][c].off
      /\ \A x \in Owners, c \in Blocks : x # o \/ c # b => ordered'[x][c] = ordered[x][c]
      /\ ~ordered'[o][b].synced
  BY <1>5 DEF EngineInv, TypeOK, Entry
<1>7. ordered' \in [Owners -> [Blocks -> Entry]]
  <2>1. [ordered[o][b] EXCEPT !.synced = FALSE] \in Entry
    <3>1. ordered[o][b] \in Entry
      BY DEF EngineInv, TypeOK
    <3>. QED
      BY <3>1 DEF Entry
  <2>2. ordered' = [ordered EXCEPT ![o] = [ordered[o] EXCEPT ![b] =
                       [ordered[o][b] EXCEPT !.synced = FALSE]]]
    BY <1>5 DEF EngineInv, TypeOK
  <2>. QED
    BY <2>1, <2>2 DEF EngineInv, TypeOK
<1>8. /\ contents' = contents
      /\ blocks' = blocks
      /\ data_synced' = [data_synced EXCEPT ![o] = FALSE]
  <2>1. blocks' = [blocks EXCEPT ![o][b] = blocks[o][b]]
    BY DEF PutHit, record_block
  <2>2. blocks' = blocks
    BY <2>1 DEF EngineInv, TypeOK
  <2>. QED
    BY <2>2 DEF PutHit, record_block, EngineInv, OwnersHaveItems
<1>9. UNCHANGED <<free_pages, mapped, owner_pages, owner_free, lru, disk, reply, terminated>>
  BY DEF PutHit
<1>10. \A x \in Owners, c \in Blocks : is_block_cached(x, c)' <=> is_block_cached(x, c)
  BY <1>4, <1>8 DEF is_block_cached, contains_block, EngineInv, TypeOK
<1>11. TypeOK'
  BY <1>3, <1>7, <1>8, <1>9 DEF EngineInv, TypeOK
<1>12. FreeXorOwned'
  BY <1>4, <1>9 DEF EngineInv, FreeXorOwned
<1>13. \A x \in Owners, c \in Blocks : ordered'[x][c] # NoEntry <=> ordered[x][c] # NoEntry
  <2>1. ordered[o][b].page # NoPage /\ ordered[o][b] # NoEntry
    BY <1>1, PageCacheAssumption DEF EngineInv, TablesAgree, PutHit
  <2>2. ordered'[o][b] # NoEntry
    BY <1>6, <2>1 DEF NoEntry
  <2>. QED
    BY <1>6, <2>1, <2>2
<1>14. TablesAgree'
  <2>. SUFFICES ASSUME NEW x \in Owners, NEW c \in Blocks
                PROVE  /\ ordered'[x][c] # NoEntry <=> is_block_cached(x, c)'
                       /\ is_block_cached(x, c)' =>
                             /\ ordered'[x][c].page = blocks'[x][c]
                             /\ ordered'[x][c].off = page'[blocks'[x][c]].off[c]
                       /\ \A q \in Pages :
                             page'[q].owner = x /\ contains_block(q, c)' => blocks'[x][c] = q
    BY DEF TablesAgree
  <2>1. is_block_cached(x, c) => blocks[x][c] \in Pages
    BY DEF EngineInv, TypeOK, is_block_cached
  <2>. QED
    BY <1>4, <1>6, <1>8, <1>10, <1>13, <2>1 DEF EngineInv, TablesAgree, contains_block
<1>15. PagesHoldOneBlock'
  <2>. SUFFICES ASSUME NEW q \in Pages, page'[q] # ResetPage(NONE)
                PROVE  /\ page'[q].owner \in mapped'
                       /\ page'[q].free = {}
                       /\ \E d \in Blocks : \A c \in Blocks : contains_block(q, c)' <=> c = d
    BY DEF PagesHoldOneBlock
  <2>1. page[q] # ResetPage(NONE)
    BY <1>1, <1>4, PageCacheAssumption DEF ResetPage
  <2>. QED
    BY <1>4, <1>9, <2>1 DEF EngineInv, PagesHoldOneBlock, contains_block
<1>16. OwnersHaveItems'
  <2>1. \A x \in Owners : x \notin mapped => ordered'[x] = NoEntries
    BY <1>5 DEF PutHit, EngineInv, OwnersHaveItems, TypeOK
  <2>2. \A x \in Owners : x \notin contents => data_synced'[x]
    BY <1>8 DEF PutHit, EngineInv, OwnersHaveItems, TypeOK
  <2>. QED
    BY <1>8, <1>9, <1>10, <2>1, <2>2 DEF EngineInv, OwnersHaveItems
<1>17. FlagsAgree'
  <2>. SUFFICES ASSUME NEW x \in Owners, NEW c \in Blocks, is_block_cached(x, c)
                PROVE  LET pg == page'[blocks[x][c]]
                       IN  /\ pg.dirty <=> ~ordered'[x][c].synced
                           /\ pg.dirty => ~data_synced'[x]
                           /\ ~pg.dirty => pg.data[pg.off[c]] = disk[x][c]
    BY <1>8, <1>9, <1>10 DEF FlagsAgree
  <2>1. CASE x = o /\ c = b
    BY <1>4, <1>6, <1>8, <2>1 DEF EngineInv, TypeOK
  <2>2. CASE ~(x = o /\ c = b)
    <3>1. blocks[x][c] \in Pages /\ blocks[x][c] # p
      <4>1. blocks[x][c] \in Pages /\ page[blocks[x][c]].owner = x /\ contains_block(blocks[x][c], c)
        BY DEF EngineInv, TypeOK, is_block_cached
      <4>2. page[p] # ResetPage(NONE) /\ contains_block(p, b)
        BY <1>1, PageCacheAssumption DEF ResetPage, PutHit, is_block_cached
      <4>. QED
        BY <1>1, <2>2, <4>1, <4>2 DEF EngineInv, PagesHoldOneBlock
    <3>2. page'[blocks[x][c]] = page[blocks[x][c]] /\ ordered'[x][c] = ordered[x][c]
      BY <1>4, <1>6, <2>2, <3>1
    <3>3. data_synced[x] \in BOOLEAN /\ (data_synced'[x] = data_synced[x] \/ ~data_synced'[x])
      BY <1>8 DEF EngineInv, TypeOK
    <3>. QED
      BY <3>2, <3>3 DEF EngineInv, FlagsAgree
  <2>. QED
    BY <2>1, <2>2
<1>18. NeverThrows'
  BY <1>9 DEF EngineInv, NeverThrows
<1>. QED
  BY <1>11, <1>12, <1>14, <1>15, <1>16, <1>17, <1>18 DEF EngineInv

\* A write to a block that is not cached takes an empty page.
LEMMA PutFreePageInv ==
    ASSUME OneBlockNoEviction, EngineInv, NEW o \in Owners, NEW b \in Blocks,
           NEW v \in Values, PutFreePage(o, b, v)
    PROVE  EngineInv'
<1>. DEFINE New == [owner |-> o, dirty |-> TRUE,
                    off   |-> [c \in Blocks |-> IF c = b THEN 0 ELSE NoSlot],
                    free  |-> {}, data |-> [s \in Slots |-> v]]
<1>1. PICK p \in Pages :
          /\ free_pages[p] > 0
          /\ free_pages' = [free_pages EXCEPT ![p] = @ - 1]
          /\ store_block(o, b, v, p, page[p], owner_pages, ordered)
  BY DEF PutFreePage
<1>. DEFINE new == [page |-> p, off |-> 0, synced |-> FALSE]
<1>2. page[p] = ResetPage(NONE) /\ free_pages[p] = 1
  <2>1. free_pages[p] = 1 /\ page[p].owner = NONE
    BY <1>1 DEF EngineInv, FreeXorOwned
  <2>. QED
    BY <2>1, PageCacheAssumption DEF EngineInv, PagesHoldOneBlock, TypeOK
<1>3. ~is_block_cached(o, b) /\ blocks[o][b] = NoPage /\ ordered[o][b] = NoEntry
  BY UncachedHasNoPage DEF PutFreePage, EngineInv, TablesAgree
<1>4. PICK off \in IF page[p].free = {} THEN {NoSlot} ELSE page[p].free :
          LET at   == IF page[p].off[b] = NoSlot THEN off ELSE page[p].off[b]
              left == page[p].free \ {off}
          IN  /\ page' = [page EXCEPT ![p] =
                    [owner |-> o, dirty |-> TRUE,
                     off   |-> [page[p].off EXCEPT ![b] = at], free |-> left,
                     data  |-> IF at = NoSlot THEN page[p].data
                                              ELSE [page[p].data EXCEPT ![at] = v]]]
              /\ update_owner_pages(o, p, b, off, left # {}, owner_pages, ordered)
  BY <1>1 DEF store_block, free_slots_left
<1>5. off = 0 /\ page[p].free \ {off} = {} /\ page[p].off[b] = NoSlot
  BY <1>2, <1>4, OneSlot DEF ResetPage
<1>6. page' = [page EXCEPT ![p] = New]
  <2>1. [page[p].off EXCEPT ![b] = 0] = New.off
    BY <1>2 DEF ResetPage
  <2>2. [page[p].data EXCEPT ![0] = v] = New.data
    BY <1>2, OneSlot DEF ResetPage
  <2>3. NoSlot # 0
    BY OneSlot
  <2>. QED
    BY <1>4, <1>5, <2>1, <2>2, <2>3
<1>7. update_owner_pages(o, p, b, 0, FALSE, owner_pages, ordered)
  <2>1. (page[p].free \ {off} # {}) = FALSE
    BY <1>5
  <2>. QED
    BY <1>4, <1>5, <2>1
<1>8. /\ mapped' = mapped \cup {o}
      /\ owner_pages' = [owner_pages EXCEPT ![o] = @ \cup {p}]
      /\ owner_free' = owner_free
  <2>1. page[p].owner \notin mapped
    BY <1>2, PageCacheAssumption DEF ResetPage, EngineInv, TypeOK
  <2>. QED
    BY <1>7, <2>1 DEF update_owner_pages, EngineInv, TypeOK
<1>9. ordered' = [ordered EXCEPT ![o] = [ordered[o] EXCEPT ![b] = new]]
  <2>1. page[p].owner \notin mapped
    BY <1>2, PageCacheAssumption DEF ResetPage, EngineInv, TypeOK
  <2>2. ordered' = [x \in Owners |-> IF x = o THEN [ordered[o] EXCEPT ![b] = new] ELSE ordered[x]]
    BY <1>3, <1>7, <2>1 DEF update_owner_pages
  <2>. QED
    BY <2>2 DEF EngineInv, TypeOK
<1>10. /\ contents' = contents \cup {o}
       /\ blocks' = [blocks EXCEPT ![o][b] = p]
       /\ data_synced' = [data_synced EXCEPT ![o] = FALSE]
       /\ UNCHANGED <<lru, disk, reply, terminated>>
  BY <1>1 DEF store_block, record_block, lru_visit, OneBlockNoEviction
<1>11. /\ page'[p] = New
       /\ \A q \in Pages : q # p => page'[q] = page[q]
       /\ page' \in [Pages -> Page]
  <2>1. New \in Page
    BY OneSlot DEF Page
  <2>. QED
    BY <1>6, <2>1 DEF EngineInv, TypeOK
<1>12. /\ blocks' \in [Owners -> [Blocks -> Pages \cup {NoPage}]]
       /\ \A x \in Owners, c \in Blocks :
             blocks'[x][c] = IF x = o /\ c = b THEN p ELSE blocks[x][c]
  BY <1>10 DEF EngineInv, TypeOK
<1>13. /\ ordered' \in [Owners -> [Blocks -> Entry]]
       /\ \A x \in Owners, c \in Blocks :
             ordered'[x][c] = IF x = o /\ c = b THEN new ELSE ordered[x][c]
  <2>1. new \in Entry
    BY OneSlot DEF Entry
  <2>. QED
    BY <1>9, <2>1 DEF EngineInv, TypeOK
<1>14. \A x \in Owners, c \in Blocks :
          is_block_cached(x, c) => blocks[x][c] \in Pages /\ blocks[x][c] # p
  BY <1>2, PageCacheAssumption DEF EngineInv, TypeOK, is_block_cached, ResetPage
<1>15. /\ is_block_cached(o, b)'
       /\ \A x \in Owners, c \in Blocks :
             x # o \/ c # b => (is_block_cached(x, c)' <=> is_block_cached(x, c))
  <2>1. is_block_cached(o, b)'
    BY <1>11, <1>12, OneSlot, PageCacheAssumption DEF is_block_cached, contains_block
  <2>2. ASSUME NEW x \in Owners, NEW c \in Blocks, x # o \/ c # b
        PROVE  is_block_cached(x, c)' <=> is_block_cached(x, c)
    <3>1. CASE is_block_cached(x, c)
      BY <1>11, <1>12, <1>14, <2>2, <3>1 DEF is_block_cached, contains_block
    <3>2. CASE ~is_block_cached(x, c)
      BY <1>12, <2>2, <3>2, UncachedHasNoPage DEF is_block_cached
    <3>. QED
      BY <3>1, <3>2
  <2>. QED
    BY <2>1, <2>2
<1>16. TypeOK'
  <2>1. free_pages' \in [Pages -> Nat]
    BY <1>1 DEF EngineInv, TypeOK
  <2>2. owner_pages' \in [Owners -> SUBSET Pages]
    BY <1>8 DEF EngineInv, TypeOK
  <2>3. /\ contents' \subseteq Owners /\ mapped' \subseteq Owners
        /\ data_synced' \in [Owners -> BOOLEAN]
    BY <1>8, <1>10 DEF EngineInv, TypeOK
  <2>. QED
    BY <1>8, <1>10, <1>11, <1>12, <1>13, <2>1, <2>2, <2>3 DEF EngineInv, TypeOK
<1>17. FreeXorOwned'
  <2>. SUFFICES ASSUME NEW q \in Pages
                PROVE  /\ free_pages'[q] = IF page'[q].owner = NONE THEN 1 ELSE 0
                       /\ \A x \in Owners : q \in owner_pages'[x] <=> page'[q].owner = x
    BY DEF FreeXorOwned
  <2>1. CASE q = p
    <3>1. \A x \in Owners : p \notin owner_pages[x]
      BY <1>2, PageCacheAssumption DEF EngineInv, FreeXorOwned, ResetPage
    <3>. QED
      BY <1>1, <1>2, <1>8, <1>11, <2>1, <3>1, PageCacheAssumption DEF EngineInv, TypeOK
  <2>2. CASE q # p
    BY <1>1, <1>8, <1>11, <2>2 DEF EngineInv, TypeOK, FreeXorOwned
  <2>. QED
    BY <2>1, <2>2
<1>18. TablesAgree'
  <2>. SUFFICES ASSUME NEW x \in Owners, NEW c \in Blocks
                PROVE  /\ ordered'[x][c] # NoEntry <=> is_block_cached(x, c)'
                       /\ is_block_cached(x, c)' =>
                             /\ ordered'[x][c].page = blocks'[x][c]
                             /\ ordered'[x][c].off = page'[blocks'[x][c]].off[c]
                       /\ \A q \in Pages :
                             page'[q].owner = x /\ contains_block(q, c)' => blocks'[x][c] = q
    BY DEF TablesAgree
  <2>1. CASE x = o /\ c = b
    <3>1. new # NoEntry
      BY PageCacheAssumption DEF NoEntry
    <3>2. \A q \in Pages : page'[q].owner = o /\ contains_block(q, b)' => q = p
      BY <1>3, <1>11, PageCacheAssumption DEF EngineInv, TablesAgree, contains_block
    <3>. QED
      BY <1>11, <1>12, <1>13, <1>15, <2>1, <3>1, <3>2
  <2>2. CASE ~(x = o /\ c = b)
    <3>1. ~contains_block(p, c)' \/ x # o
      BY <1>11, <2>2 DEF contains_block
    <3>2. \A q \in Pages : page'[q].owner = x /\ contains_block(q, c)' => blocks'[x][c] = q
      BY <1>11, <1>12, <2>2, <3>1 DEF EngineInv, TablesAgree, contains_block
    <3>3. ordered'[x][c] = ordered[x][c] /\ blocks'[x][c] = blocks[x][c]
      BY <1>12, <1>13, <2>2
    <3>. QED
      BY <1>11, <1>14, <1>15, <2>2, <3>2, <3>3 DEF EngineInv, TablesAgree
  <2>. QED
    BY <2>1, <2>2
<1>19. PagesHoldOneBlock'
  <2>. SUFFICES ASSUME NEW q \in Pages, page'[q] # ResetPage(NONE)
                PROVE  /\ page'[q].owner \in mapped'
                       /\ page'[q].free = {}
                       /\ \E d \in Blocks : \A c \in Blocks : contains_block(q, c)' <=> c = d
    BY DEF PagesHoldOneBlock
  <2>1. CASE q = p
    BY <1>8, <1>11, <2>1, OneSlot DEF contains_block
  <2>2. CASE q # p
    BY <1>8, <1>11, <2>2 DEF EngineInv, PagesHoldOneBlock, contains_block
  <2>. QED
    BY <2>1, <2>2
<1>20. OwnersHaveItems'
  <2>1. \A x \in Owners : x \notin mapped' =>
            owner_pages'[x] = owner_pages[x] /\ ordered'[x] = ordered[x]
    BY <1>8, <1>9 DEF EngineInv, TypeOK
  <2>2. \A x \in Owners : x \notin contents' =>
            blocks'[x] = blocks[x] /\ data_synced'[x] = data_synced[x]
    BY <1>10 DEF EngineInv, TypeOK
  <2>3. \A x \in Owners, c \in Blocks : blocks'[x][c] # NoPage => is_block_cached(x, c)'
    BY <1>12, <1>15 DEF EngineInv, OwnersHaveItems
  <2>. QED
    BY <1>8, <1>10, <2>1, <2>2, <2>3 DEF EngineInv, OwnersHaveItems
<1>21. FlagsAgree'
  <2>. SUFFICES ASSUME NEW x \in Owners, NEW c \in Blocks, is_block_cached(x, c)'
                PROVE  LET pg == page'[blocks'[x][c]]
                       IN  /\ pg.dirty <=> ~ordered'[x][c].synced
                           /\ pg.dirty => ~data_synced'[x]
                           /\ ~pg.dirty => pg.data[pg.off[c]] = disk[x][c]
    BY <1>10 DEF FlagsAgree
  <2>1. CASE x = o /\ c = b
    BY <1>10, <1>11, <1>12, <1>13, <2>1 DEF EngineInv, TypeOK
  <2>2. CASE ~(x = o /\ c = b)
    <3>1. is_block_cached(x, c)
      BY <1>15, <2>2
    <3>2. page'[blocks'[x][c]] = page[blocks[x][c]] /\ ordered'[x][c] = ordered[x][c]
          /\ blocks'[x][c] = blocks[x][c]
      BY <1>11, <1>12, <1>13, <1>14, <2>2, <3>1
    <3>3. data_synced'[x] = data_synced[x] \/ ~data_synced'[x]
      BY <1>10 DEF EngineInv, TypeOK
    <3>. QED
      BY <3>1, <3>2, <3>3 DEF EngineInv, FlagsAgree
  <2>. QED
    BY <2>1, <2>2
<1>22. NeverThrows'
  BY <1>10 DEF EngineInv, NeverThrows
<1>. QED
  BY <1>16, <1>17, <1>18, <1>19, <1>20, <1>21, <1>22 DEF EngineInv

\* A sync meets every page once, so it writes exactly the dirty blocks.
LEMMA FlushedAreDirty ==
    ASSUME EngineInv, NEW o \in Owners
    PROVE  flushed_blocks(o) =
               {b \in Blocks : is_block_cached(o, b) /\ page[blocks[o][b]].dirty}
<1>. SUFFICES ASSUME NEW b \in Blocks
              PROVE  b \in flushed_blocks(o) <=>
                         is_block_cached(o, b) /\ page[blocks[o][b]].dirty
  BY DEF flushed_blocks
<1>1. ordered[o][b] # NoEntry <=> is_block_cached(o, b)
  BY DEF EngineInv, TablesAgree
<1>2. is_block_cached(o, b) => ordered[o][b].page = blocks[o][b]
  BY DEF EngineInv, TablesAgree
<1>3. ASSUME is_block_cached(o, b), NEW c \in Blocks, c # b
      PROVE  ordered[o][c].page # ordered[o][b].page
  <2>1. blocks[o][b] \in Pages /\ contains_block(blocks[o][b], b)
        /\ page[blocks[o][b]].owner = o
    BY <1>3 DEF EngineInv, TypeOK, is_block_cached
  <2>2. page[blocks[o][b]] # ResetPage(NONE)
    BY <2>1, PageCacheAssumption DEF ResetPage
  <2>3. ~contains_block(blocks[o][b], c)
    BY <1>3, <2>1, <2>2 DEF EngineInv, PagesHoldOneBlock
  <2>4. CASE is_block_cached(o, c)
    <3>1. ordered[o][c].page = blocks[o][c] /\ contains_block(blocks[o][c], c)
      BY <2>4 DEF EngineInv, TablesAgree, is_block_cached
    <3>. QED
      BY <1>2, <1>3, <2>3, <3>1
  <2>5. CASE ~is_block_cached(o, c)
    <3>1. ordered[o][c] = NoEntry
      BY <2>5 DEF EngineInv, TablesAgree
    <3>2. ordered[o][c].page = NoPage
      BY <3>1 DEF NoEntry
    <3>. QED
      BY <1>2, <1>3, <2>1, <3>2, PageCacheAssumption
  <2>. QED
    BY <2>4, <2>5
<1>. QED
  BY <1>1, <1>2, <1>3, PageCacheAssumption DEF flushed_blocks

\* A sync of one owner.
LEMMA SyncOwnerInv ==
    ASSUME OneBlockNoEviction, EngineInv, NEW o \in Owners, SyncOwner(o)
    PROVE  EngineInv'
<1>. DEFINE F == flushed_blocks(o)
            P == {ordered[o][b].page : b \in F}
<1>1. PICK junk \in Values :
          disk' = [disk EXCEPT ![o] = [b \in Blocks |->
                     IF b \notin F THEN disk[o][b]
                     ELSE IF ordered[o][b].off = NoSlot THEN junk
                     ELSE page[ordered[o][b].page].data[ordered[o][b].off]]]
  BY DEF SyncOwner
<1>2. /\ page' = [p \in Pages |->
                    IF p \in P THEN [page[p] EXCEPT !.dirty = FALSE] ELSE page[p]]
      /\ ordered' = [ordered EXCEPT ![o] = [b \in Blocks |->
                       IF b \in F THEN [ordered[o][b] EXCEPT !.synced = TRUE] ELSE ordered[o][b]]]
      /\ data_synced' = [data_synced EXCEPT ![o] = TRUE]
      /\ o \in contents
  BY DEF SyncOwner, synced_page
<1>3. UNCHANGED <<contents, blocks, free_pages, mapped, owner_pages, owner_free,
                  lru, reply, terminated>>
  BY DEF SyncOwner
<1>4. F = {b \in Blocks : is_block_cached(o, b) /\ page[blocks[o][b]].dirty}
  BY FlushedAreDirty
<1>5. \A x \in Owners, b \in Blocks : is_block_cached(x, b) =>
          /\ blocks[x][b] \in Pages
          /\ page[blocks[x][b]].owner = x
          /\ page[blocks[x][b]].off[b] \in Slots
          /\ ordered[x][b].page = blocks[x][b]
          /\ ordered[x][b].off = page[blocks[x][b]].off[b]
  BY DEF EngineInv, TypeOK, TablesAgree, is_block_cached, contains_block, Page
<1>6. /\ P \subseteq Pages
      /\ \A p \in P : page[p].owner = o /\ page[p].dirty
  BY <1>4, <1>5
<1>7. /\ page' \in [Pages -> Page]
      /\ \A p \in Pages : /\ page'[p].owner = page[p].owner
                          /\ page'[p].off = page[p].off
                          /\ page'[p].free = page[p].free
                          /\ page'[p].data = page[p].data
                          /\ p \notin P => page'[p] = page[p]
                          /\ p \in P => ~page'[p].dirty
  <2>1. \A p \in Pages : page[p] \in Page
    BY DEF EngineInv, TypeOK
  <2>. QED
    BY <1>2, <2>1 DEF Page
<1>8. /\ ordered' \in [Owners -> [Blocks -> Entry]]
      /\ \A x \in Owners, b \in Blocks :
            /\ ordered'[x][b].page = ordered[x][b].page
            /\ ordered'[x][b].off = ordered[x][b].off
            /\ x # o \/ b \notin F => ordered'[x][b] = ordered[x][b]
      /\ \A b \in F : ordered'[o][b].synced
  <2>1. \A b \in Blocks : ordered[o][b] \in Entry
    BY DEF EngineInv, TypeOK
  <2>2. \A b \in F : [ordered[o][b] EXCEPT !.synced = TRUE] \in Entry
    BY <1>4, <2>1 DEF Entry
  <2>3. ordered' \in [Owners -> [Blocks -> Entry]]
    BY <1>2, <2>1, <2>2 DEF EngineInv, TypeOK
  <2>4. ASSUME NEW b \in F
        PROVE  /\ ordered'[o][b] = [ordered[o][b] EXCEPT !.synced = TRUE]
               /\ ordered'[o][b].page = ordered[o][b].page
               /\ ordered'[o][b].off = ordered[o][b].off
               /\ ordered'[o][b].synced
    BY <1>2, <1>4, <2>1 DEF EngineInv, TypeOK, Entry
  <2>5. \A x \in Owners, b \in Blocks : x # o \/ b \notin F => ordered'[x][b] = ordered[x][b]
    BY <1>2 DEF EngineInv, TypeOK
  <2>. QED
    BY <2>3, <2>4, <2>5
<1>9. /\ disk' \in [Owners -> [Blocks -> Values]]
      /\ \A x \in Owners, b \in Blocks : x # o \/ b \notin F => disk'[x][b] = disk[x][b]
      /\ \A b \in F : disk'[o][b] = page[blocks[o][b]].data[page[blocks[o][b]].off[b]]
  <2>1. \A b \in F : /\ ordered[o][b].off # NoSlot
                     /\ page[blocks[o][b]].data[page[blocks[o][b]].off[b]] \in Values
    BY <1>4, <1>5, OneSlot DEF EngineInv, TypeOK, Page
  <2>2. \A b \in F : disk'[o][b] = page[blocks[o][b]].data[page[blocks[o][b]].off[b]]
    BY <1>1, <1>4, <1>5, <2>1 DEF EngineInv, TypeOK
  <2>3. \A x \in Owners, b \in Blocks : x # o \/ b \notin F => disk'[x][b] = disk[x][b]
    BY <1>1 DEF EngineInv, TypeOK
  <2>4. disk' \in [Owners -> [Blocks -> Values]]
    <3>1. disk' = [disk EXCEPT ![o] = [b \in Blocks |-> disk'[o][b]]]
      BY <1>1 DEF EngineInv, TypeOK
    <3>2. \A b \in Blocks : disk'[o][b] \in Values
      BY <2>1, <2>2, <2>3 DEF EngineInv, TypeOK
    <3>. QED
      BY <3>1, <3>2 DEF EngineInv, TypeOK
  <2>. QED
    BY <2>2, <2>3, <2>4
<1>10. \A x \in Owners, b \in Blocks : is_block_cached(x, b)' <=> is_block_cached(x, b)
  BY <1>3, <1>7 DEF is_block_cached, contains_block, EngineInv, TypeOK
<1>11. TypeOK'
  <2>1. data_synced' \in [Owners -> BOOLEAN]
    BY <1>2 DEF EngineInv, TypeOK
  <2>. QED
    BY <1>3, <1>7, <1>8, <1>9, <2>1 DEF EngineInv, TypeOK
<1>12. FreeXorOwned'
  BY <1>3, <1>7 DEF EngineInv, FreeXorOwned
<1>13. TablesAgree'
  <2>. SUFFICES ASSUME NEW x \in Owners, NEW c \in Blocks
                PROVE  /\ ordered'[x][c] # NoEntry <=> is_block_cached(x, c)'
                       /\ is_block_cached(x, c)' =>
                             /\ ordered'[x][c].page = blocks'[x][c]
                             /\ ordered'[x][c].off = page'[blocks'[x][c]].off[c]
                       /\ \A q \in Pages :
                             page'[q].owner = x /\ contains_block(q, c)' => blocks'[x][c] = q
    BY DEF TablesAgree
  <2>1. ordered'[x][c] # NoEntry <=> is_block_cached(x, c)
    <3>1. CASE x = o /\ c \in F
      BY <1>4, <1>5, <1>8, <3>1, PageCacheAssumption DEF NoEntry
    <3>2. CASE x # o \/ c \notin F
      BY <1>8, <3>2 DEF EngineInv, TablesAgree
    <3>. QED
      BY <3>1, <3>2
  <2>. QED
    BY <1>3, <1>5, <1>7, <1>8, <1>10, <2>1 DEF EngineInv, TablesAgree, contains_block
<1>14. PagesHoldOneBlock'
  <2>. SUFFICES ASSUME NEW q \in Pages, page'[q] # ResetPage(NONE)
                PROVE  /\ page'[q].owner \in mapped'
                       /\ page'[q].free = {}
                       /\ \E d \in Blocks : \A c \in Blocks : contains_block(q, c)' <=> c = d
    BY DEF PagesHoldOneBlock
  <2>1. page[q] # ResetPage(NONE)
    BY <1>6, <1>7, PageCacheAssumption DEF ResetPage
  <2>. QED
    BY <1>3, <1>7, <2>1 DEF EngineInv, PagesHoldOneBlock, contains_block
<1>15. OwnersHaveItems'
  <2>1. \A x \in Owners : x \notin mapped => ordered'[x] = NoEntries
    <3>. SUFFICES ASSUME NEW x \in Owners, x \notin mapped
                  PROVE  ordered'[x] = NoEntries
      OBVIOUS
    <3>1. ordered[x] = NoEntries
      BY DEF EngineInv, OwnersHaveItems
    <3>2. CASE x # o
      BY <1>2, <3>1, <3>2 DEF EngineInv, TypeOK
    <3>3. CASE x = o
      <4>1. F = {}
        BY <1>4, <3>1, <3>3 DEF EngineInv, TablesAgree, NoEntries
      <4>2. \A b \in Blocks : ordered'[o][b] = ordered[o][b]
        BY <1>8, <4>1
      <4>. QED
        BY <1>8, <3>1, <3>3, <4>2 DEF NoEntries
    <3>. QED
      BY <3>2, <3>3
  <2>2. \A x \in Owners : x \notin contents => data_synced'[x]
    BY <1>2 DEF EngineInv, OwnersHaveItems, TypeOK
  <2>. QED
    BY <1>3, <1>10, <2>1, <2>2 DEF EngineInv, OwnersHaveItems
<1>16. FlagsAgree'
  <2>. SUFFICES ASSUME NEW x \in Owners, NEW c \in Blocks, is_block_cached(x, c)
                PROVE  LET pg == page'[blocks[x][c]]
                       IN  /\ pg.dirty <=> ~ordered'[x][c].synced
                           /\ pg.dirty => ~data_synced'[x]
                           /\ ~pg.dirty => pg.data[pg.off[c]] = disk'[x][c]
    BY <1>3, <1>10 DEF FlagsAgree
  <2>1. CASE x = o /\ c \in F
    <3>1. blocks[x][c] \in P
      BY <1>4, <1>5, <2>1
    <3>. QED
      BY <1>5, <1>7, <1>8, <1>9, <2>1, <3>1
  <2>2. CASE x = o /\ c \notin F
    <3>1. ~page[blocks[x][c]].dirty
      BY <1>4, <2>2
    <3>2. blocks[x][c] \notin P
      BY <1>6, <3>1
    <3>3. page'[blocks[x][c]] = page[blocks[x][c]]
      BY <1>5, <1>7, <3>2
    <3>4. ordered'[x][c] = ordered[x][c] /\ disk'[x][c] = disk[x][c]
      BY <1>8, <1>9, <2>2
    <3>5. /\ ordered[x][c].synced
          /\ page[blocks[x][c]].data[page[blocks[x][c]].off[c]] = disk[x][c]
      BY <3>1 DEF EngineInv, FlagsAgree
    <3>. QED
      BY <3>1, <3>3, <3>4, <3>5
  <2>3. CASE x # o
    <3>1. blocks[x][c] \notin P
      BY <1>5, <1>6, <2>3
    <3>2. data_synced'[x] = data_synced[x]
      BY <1>2, <2>3 DEF EngineInv, TypeOK
    <3>3. page'[blocks[x][c]] = page[blocks[x][c]]
      BY <1>5, <1>7, <3>1
    <3>4. ordered'[x][c] = ordered[x][c] /\ disk'[x][c] = disk[x][c]
      BY <1>8, <1>9, <2>3
    <3>. QED
      BY <3>2, <3>3, <3>4 DEF EngineInv, FlagsAgree
  <2>. QED
    BY <2>1, <2>2, <2>3
<1>17. NeverThrows'
  BY <1>3 DEF EngineInv, NeverThrows
<1>. QED
  BY <1>11, <1>12, <1>13, <1>14, <1>15, <1>16, <1>17 DEF EngineInv

\* What an owner's removal does to the pages: those of the owners in S are reset
\* and put in the free list once, the others stay as they are.
LEMMA RemovedPages ==
    ASSUME TypeOK, FreeXorOwned, NEW S, S \subseteq Owners, remove_cached_blocks(S)
    PROVE  \A p \in Pages :
              /\ page[p].owner \in S =>
                    page'[p] = ResetPage(NONE) /\ free_pages'[p] = 1
              /\ page[p].owner \notin S =>
                    page'[p] = page[p] /\ free_pages'[p] = free_pages[p]
<1>. SUFFICES ASSUME NEW p \in Pages
              PROVE  /\ page[p].owner \in S =>
                           page'[p] = ResetPage(NONE) /\ free_pages'[p] = 1
                     /\ page[p].owner \notin S =>
                           page'[p] = page[p] /\ free_pages'[p] = free_pages[p]
  OBVIOUS
<1>. DEFINE owned == {o \in S : p \in owner_pages[o]}
<1>1. /\ free_pages'[p] = free_pages[p] + Cardinality(owned)
      /\ page'[p] = IF owned = {} THEN page[p] ELSE ResetPage(NONE)
  BY DEF remove_cached_blocks, times_freed, released_page
<1>2. free_pages[p] \in Nat
  BY DEF TypeOK
<1>3. CASE page[p].owner \in S
  <2>1. owned = {page[p].owner}
    BY <1>3 DEF FreeXorOwned
  <2>2. Cardinality(owned) = 1
    BY <2>1, FS_Singleton
  <2>3. free_pages[p] = 0
    BY <1>3, PageCacheAssumption DEF FreeXorOwned
  <2>. QED
    BY <1>1, <1>3, <2>1, <2>2, <2>3
<1>4. CASE page[p].owner \notin S
  <2>1. owned = {}
    BY <1>4 DEF FreeXorOwned
  <2>2. Cardinality(owned) = 0
    BY <2>1, FS_EmptySet
  <2>. QED
    BY <1>1, <1>2, <1>4, <2>1, <2>2
<1>. QED
  BY <1>3, <1>4

\* Removing the items of S together with their pages keeps the invariant, if
\* the disk changes only for owners in S.
LEMMA RemoveInv ==
    ASSUME OneBlockNoEviction, EngineInv, NEW S, S \subseteq Owners,
           remove_cached_blocks(S), delete_items(S),
           UNCHANGED <<reply, terminated>>,
           disk' \in [Owners -> [Blocks -> Values]],
           \A o \in Owners \ S : disk'[o] = disk[o]
    PROVE  EngineInv'
<1>1. /\ page' \in [Pages -> Page]
      /\ free_pages' \in [Pages -> Nat]
      /\ \A p \in Pages : page[p].owner \in S =>
             page'[p] = ResetPage(NONE) /\ free_pages'[p] = 1
      /\ \A p \in Pages : page[p].owner \notin S =>
             page'[p] = page[p] /\ free_pages'[p] = free_pages[p]
  <2>1. /\ DOMAIN page' = Pages /\ page' = [p \in Pages |-> page'[p]]
        /\ DOMAIN free_pages' = Pages /\ free_pages' = [p \in Pages |-> free_pages'[p]]
    BY DEF remove_cached_blocks
  <2>2. \A p \in Pages : page'[p] \in Page /\ free_pages'[p] \in Nat
    <3>1. ResetPage(NONE) \in Page
      BY ResetTypes
    <3>2. \A p \in Pages : page[p] \in Page /\ free_pages[p] \in Nat
      BY DEF EngineInv, TypeOK
    <3>. QED
      BY <3>1, <3>2, RemovedPages DEF EngineInv
  <2>. QED
    BY <2>1, <2>2, RemovedPages DEF EngineInv
<1>2. /\ mapped' = mapped \ S
      /\ contents' = contents \ S
      /\ lru' = lru
      /\ UNCHANGED <<reply, terminated>>
  BY DEF remove_cached_blocks, delete_items, lru_forget, OneBlockNoEviction
<1>3. \A o \in Owners :
        IF o \in S
        THEN /\ owner_pages'[o] = {} /\ ordered'[o] = NoEntries
             /\ owner_free'[o] = <<>> /\ blocks'[o] = NoBlocks /\ data_synced'[o] = TRUE
        ELSE /\ owner_pages'[o] = owner_pages[o] /\ ordered'[o] = ordered[o]
             /\ owner_free'[o] = owner_free[o] /\ blocks'[o] = blocks[o]
             /\ data_synced'[o] = data_synced[o]
  BY DEF remove_cached_blocks, delete_items
<1>4. TypeOK'
  <2>1. /\ owner_pages' \in [Owners -> SUBSET Pages]
        /\ owner_free' \in [Owners -> Seq(Pages)]
    BY DEF EngineInv, TypeOK, remove_cached_blocks
  <2>2. /\ ordered' \in [Owners -> [Blocks -> Entry]]
        /\ blocks' \in [Owners -> [Blocks -> Pages \cup {NoPage}]]
    BY ResetTypes DEF EngineInv, TypeOK, remove_cached_blocks, delete_items
  <2>3. data_synced' \in [Owners -> BOOLEAN]
    BY DEF EngineInv, TypeOK, delete_items
  <2>. QED
    BY <1>1, <1>2, <2>1, <2>2, <2>3 DEF EngineInv, TypeOK
<1>5. \A o \in Owners, b \in Blocks :
        is_block_cached(o, b)' <=> o \notin S /\ is_block_cached(o, b)
  <2>. SUFFICES ASSUME NEW o \in Owners, NEW b \in Blocks
                PROVE  is_block_cached(o, b)' <=> o \notin S /\ is_block_cached(o, b)
    OBVIOUS
  <2>1. CASE o \in S
    BY <1>3, <2>1 DEF is_block_cached, NoBlocks
  <2>2. CASE o \notin S
    <3>1. blocks'[o][b] = blocks[o][b] /\ blocks[o][b] \in Pages \cup {NoPage}
      BY <1>3, <2>2 DEF EngineInv, TypeOK
    <3>2. ASSUME blocks[o][b] # NoPage
          PROVE  page'[blocks[o][b]] = page[blocks[o][b]]
      <4>1. page[blocks[o][b]].owner = o
        BY <3>2 DEF EngineInv, OwnersHaveItems, is_block_cached
      <4>. QED
        BY <1>1, <2>2, <3>1, <3>2, <4>1
    <3>. QED
      BY <2>2, <3>1, <3>2 DEF is_block_cached, contains_block
  <2>. QED
    BY <2>1, <2>2
<1>6. FreeXorOwned'
  <2>. SUFFICES ASSUME NEW p \in Pages
                PROVE  /\ free_pages'[p] = IF page'[p].owner = NONE THEN 1 ELSE 0
                       /\ \A o \in Owners : p \in owner_pages'[o] <=> page'[p].owner = o
    BY DEF FreeXorOwned
  <2>1. CASE page[p].owner \in S
    <3>1. page'[p].owner = NONE /\ free_pages'[p] = 1
      BY <1>1, <2>1 DEF ResetPage
    <3>2. \A o \in Owners : p \notin owner_pages'[o]
      BY <1>3, <2>1 DEF EngineInv, FreeXorOwned
    <3>. QED
      BY <3>1, <3>2, PageCacheAssumption
  <2>2. CASE page[p].owner \notin S
    <3>1. page'[p] = page[p] /\ free_pages'[p] = free_pages[p]
      BY <1>1, <2>2
    <3>2. \A o \in Owners : p \in owner_pages'[o] <=> page[p].owner = o
      BY <1>3, <2>2 DEF EngineInv, FreeXorOwned
    <3>. QED
      BY <3>1, <3>2 DEF EngineInv, FreeXorOwned
  <2>. QED
    BY <2>1, <2>2
<1>7. \A o \in Owners, p \in Pages : page'[p].owner = o =>
        o \notin S /\ page'[p] = page[p]
  <2>1. \A p \in Pages : page[p].owner \in S => page'[p].owner = NONE
    BY <1>1 DEF ResetPage
  <2>. QED
    BY <1>1, <2>1, PageCacheAssumption
<1>8. TablesAgree'
  <2>. SUFFICES ASSUME NEW x \in Owners, NEW c \in Blocks
                PROVE  /\ ordered'[x][c] # NoEntry <=> is_block_cached(x, c)'
                       /\ is_block_cached(x, c)' =>
                             /\ ordered'[x][c].page = blocks'[x][c]
                             /\ ordered'[x][c].off = page'[blocks'[x][c]].off[c]
                       /\ \A q \in Pages :
                             page'[q].owner = x /\ contains_block(q, c)' => blocks'[x][c] = q
    BY DEF TablesAgree
  <2>1. ASSUME NEW q \in Pages, page'[q].owner = x, contains_block(q, c)'
        PROVE  blocks'[x][c] = q
    BY <1>3, <1>7, <2>1 DEF EngineInv, TablesAgree, contains_block
  <2>2. CASE x \in S
    BY <1>3, <1>5, <2>1, <2>2 DEF NoEntries
  <2>3. CASE x \notin S
    <3>1. /\ ordered'[x] = ordered[x] /\ blocks'[x] = blocks[x]
          /\ is_block_cached(x, c)' <=> is_block_cached(x, c)
      BY <1>3, <1>5, <2>3
    <3>2. is_block_cached(x, c) => page'[blocks[x][c]] = page[blocks[x][c]]
      BY <1>1, <2>3 DEF is_block_cached, EngineInv, TypeOK
    <3>. QED
      BY <2>1, <3>1, <3>2 DEF EngineInv, TablesAgree
  <2>. QED
    BY <2>2, <2>3
<1>9. PagesHoldOneBlock'
  <2>. SUFFICES ASSUME NEW q \in Pages, page'[q] # ResetPage(NONE)
                PROVE  /\ page'[q].owner \in mapped'
                       /\ page'[q].free = {}
                       /\ \E d \in Blocks : \A c \in Blocks : contains_block(q, c)' <=> c = d
    BY DEF PagesHoldOneBlock
  <2>1. page[q].owner \notin S /\ page'[q] = page[q]
    BY <1>1
  <2>. QED
    BY <1>2, <2>1 DEF EngineInv, PagesHoldOneBlock, contains_block
<1>10. OwnersHaveItems'
  <2>1. mapped' \subseteq contents' /\ lru' = <<>>
    BY <1>2 DEF EngineInv, OwnersHaveItems
  <2>2. ASSUME NEW x \in Owners
        PROVE  /\ x \notin mapped' => owner_pages'[x] = {} /\ ordered'[x] = NoEntries
               /\ x \notin contents' => blocks'[x] = NoBlocks /\ data_synced'[x]
               /\ owner_free'[x] = <<>>
    BY <1>2, <1>3 DEF EngineInv, OwnersHaveItems
  <2>3. ASSUME NEW x \in Owners, NEW b \in Blocks, blocks'[x][b] # NoPage
        PROVE  is_block_cached(x, b)'
    <3>1. x \notin S /\ blocks[x][b] # NoPage
      BY <1>3, <2>3 DEF NoBlocks
    <3>. QED
      BY <1>5, <3>1 DEF EngineInv, OwnersHaveItems
  <2>. QED
    BY <2>1, <2>2, <2>3 DEF OwnersHaveItems
<1>11. FlagsAgree'
  <2>. SUFFICES ASSUME NEW x \in Owners, NEW c \in Blocks, is_block_cached(x, c)'
                PROVE  LET pg == page'[blocks'[x][c]]
                       IN  /\ pg.dirty <=> ~ordered'[x][c].synced
                           /\ pg.dirty => ~data_synced'[x]
                           /\ ~pg.dirty => pg.data[pg.off[c]] = disk'[x][c]
    BY DEF FlagsAgree
  <2>1. x \notin S /\ is_block_cached(x, c)
    BY <1>5
  <2>2. /\ ordered'[x] = ordered[x] /\ blocks'[x] = blocks[x]
        /\ data_synced'[x] = data_synced[x] /\ disk'[x] = disk[x]
    BY <1>3, <2>1
  <2>3. page'[blocks[x][c]] = page[blocks[x][c]]
    BY <1>1, <2>1 DEF is_block_cached, EngineInv, TypeOK
  <2>. QED
    BY <2>1, <2>2, <2>3 DEF EngineInv, FlagsAgree
<1>12. NeverThrows'
  BY <1>2 DEF EngineInv, NeverThrows
<1>. QED
  BY <1>4, <1>6, <1>8, <1>9, <1>10, <1>11, <1>12 DEF EngineInv

-----------------------------------------------------------------------------

\* What the configuration rules out: a block whose owner lost it, pages with
\* space left, evictions, and items that point to a page of somebody else.
LEMMA Disabled ==
    ASSUME OneBlockNoEviction, EngineInv, NEW o \in Owners, NEW b \in Blocks
    PROVE  /\ \A v \in Values : /\ ~PutThrows(o, b, v)
                                /\ ~PutOwnerPage(o, b, v)
                                /\ ~PutEvict(o, b, v)
           /\ ~GetStale(o, b)
<1>1. \A v \in Values : ~PutThrows(o, b, v)
  <2>. SUFFICES ASSUME NEW v \in Values, PutThrows(o, b, v) PROVE FALSE
    OBVIOUS
  <2>1. is_block_cached(o, b) /\ ~(o \in mapped /\ ordered[o][b] # NoEntry)
    BY DEF PutThrows
  <2>2. ordered[o][b] # NoEntry
    BY <2>1 DEF EngineInv, TablesAgree
  <2>3. ordered[o] # NoEntries
    BY <2>2 DEF NoEntries
  <2>. QED
    BY <2>1, <2>2, <2>3 DEF EngineInv, OwnersHaveItems
<1>2. \A v \in Values : ~PutOwnerPage(o, b, v)
  BY DEF EngineInv, OwnersHaveItems, PutOwnerPage
<1>3. \A v \in Values : ~PutEvict(o, b, v)
  BY DEF OneBlockNoEviction, PutEvict
<1>4. ~GetStale(o, b)
  BY UncachedHasNoPage DEF GetStale
<1>. QED
  BY <1>1, <1>2, <1>3, <1>4

\* One step per operation: every step of the cache keeps the invariant.
LEMMA NextInv ==
    ASSUME OneBlockNoEviction, EngineInv, [Next]_vars
    PROVE  EngineInv'
<1>1. ASSUME NEW o \in Owners, NEW b \in Blocks, NEW v \in Values, Put(o, b, v)
      PROVE  EngineInv'
  BY <1>1, Disabled, PutHitInv, PutFreePageInv, WriteBelowInv DEF Put
<1>2. ASSUME NEW o \in Owners, NEW b \in Blocks,
             ReadHit(o, b) \/ ReadMiss(o, b) \/ GetStale(o, b)
      PROVE  EngineInv'
  BY <1>2, Disabled, ReadInv
<1>3. ASSUME NEW o \in Owners, CreateItem(o)
      PROVE  EngineInv'
  BY <1>3, CreateItemInv
<1>4. ASSUME NEW o \in Owners, SyncOwner(o)
      PROVE  EngineInv'
  BY <1>4, SyncOwnerInv
<1>5. ASSUME NEW o \in Owners, RemoveItem(o)
      PROVE  EngineInv'
  <2>1. /\ disk' \in [Owners -> [Blocks -> Values]]
        /\ \A x \in Owners \ {o} : disk'[x] = disk[x]
    BY <1>5, PageCacheAssumption DEF RemoveItem, EngineInv, TypeOK
  <2>2. /\ remove_cached_blocks({o}) /\ delete_items({o})
        /\ UNCHANGED <<reply, terminated>> /\ {o} \subseteq Owners
    BY <1>5 DEF RemoveItem
  <2>. QED
    BY <2>1, <2>2, RemoveInv
<1>6. ASSUME ClearAll
      PROVE  EngineInv'
  <2>1. /\ disk' \in [Owners -> [Blocks -> Values]]
        /\ \A x \in Owners \ contents : disk'[x] = disk[x]
        /\ contents \subseteq Owners
    BY <1>6 DEF ClearAll, EngineInv, TypeOK
  <2>2. /\ remove_cached_blocks(contents) /\ delete_items(contents)
        /\ UNCHANGED <<reply, terminated>>
    BY <1>6 DEF ClearAll
  <2>. QED
    BY <2>1, <2>2, RemoveInv
<1>7. CASE UNCHANGED vars
  BY <1>7 DEF vars, EngineInv, TypeOK, FreeXorOwned, TablesAgree, PagesHoldOneBlock,
              OwnersHaveItems, FlagsAgree, NeverThrows, is_block_cached, contains_block
<1>. QED
  BY <1>1, <1>2, <1>3, <1>4, <1>5, <1>6, <1>7 DEF Next

-----------------------------------------------------------------------------
(* Induction and recursion over the natural numbers.                       *)

LEMMA Induction ==
    ASSUME NEW S, 0 \in S, \A n \in Nat : n \in S => n + 1 \in S
    PROVE  Nat \subseteq S
<1>. DEFINE T == Nat \ S
<1>. SUFFICES ASSUME T # {} PROVE FALSE
  OBVIOUS
<1>1. IsWellFoundedOn(OpToRel(<, Nat), Nat)
  BY NatLessThanWellFounded, Zenon
<1>2. PICK x \in T : \A y \in T : ~ (<<y, x>> \in OpToRel(<, Nat))
  <2>1. T \subseteq Nat
    OBVIOUS
  <2>. HIDE DEF T
  <2>. QED
  BY <1>1, <2>1, WFMin, Zenon
<1>3. \A y \in T : ~ (y < x)
  BY <1>2 DEF OpToRel
<1>4. x # 0 /\ x - 1 \in Nat
  OBVIOUS
<1>5. x - 1 \in S
  BY <1>3, <1>4
<1>. QED
  BY <1>4, <1>5

\* A function is defined by its value at 0 and what each value makes of the last.
unfolds(f, z, G) == f[0] = z /\ \A n \in Nat : f[n + 1] = G[n + 1][f[n]]

LEMMA Recursion ==
    ASSUME NEW T, NEW z \in T, NEW G \in [Nat -> [T -> T]]
    PROVE  \E f \in [Nat -> T] : unfolds(f, z, G)
<1>. DEFINE upto(n, f) == f \in [0 .. n -> T] /\ f[0] = z
                          /\ \A k \in 0 .. n - 1 : f[k + 1] = G[k + 1][f[k]]
            I == {n \in Nat : \E f : upto(n, f)}
<1>0. \A n \in Nat, x \in T : G[n][x] \in T
  OBVIOUS
<1>1. 0 \in I
  <2>1. upto(0, [k \in 0 .. 0 |-> z])
    OBVIOUS
  <2>. QED
    BY <2>1
<1>2. ASSUME NEW n \in Nat, n \in I PROVE n + 1 \in I
  <2>1. PICK f : upto(n, f)
    BY <1>2
  <2>. DEFINE g == [k \in 0 .. n + 1 |-> IF k = n + 1 THEN G[n + 1][f[n]] ELSE f[k]]
  <2>2. upto(n + 1, g)
    <3>1. G[n + 1][f[n]] \in T
      BY <1>0, <2>1
    <3>2. g \in [0 .. n + 1 -> T] /\ g[0] = z
      <4>1. \A k \in 0 .. n + 1 : k # n + 1 => k \in 0 .. n /\ f[k] \in T
        BY <2>1
      <4>2. 0 \in 0 .. n + 1 /\ 0 # n + 1
        OBVIOUS
      <4>3. g \in [0 .. n + 1 -> T]
        BY <3>1, <4>1
      <4>. QED
        BY <2>1, <4>2, <4>3
    <3>3. ASSUME NEW k \in 0 .. (n + 1) - 1 PROVE g[k + 1] = G[k + 1][g[k]]
      <4>1. CASE k = n
        <5>1. n \in 0 .. n + 1 /\ n + 1 \in 0 .. n + 1 /\ n # n + 1
          OBVIOUS
        <5>2. g[n] = f[n] /\ g[n + 1] = G[n + 1][f[n]]
          BY <5>1
        <5>. HIDE DEF g
        <5>. QED
          BY <4>1, <5>2
      <4>2. CASE k # n
        <5>1. k \in 0 .. n - 1 /\ k + 1 # n + 1
          BY <4>2
        <5>2. g[k + 1] = f[k + 1] /\ g[k] = f[k]
          BY <5>1
        <5>. QED
          BY <2>1, <5>1, <5>2
      <4>. QED
        BY <4>1, <4>2
    <3>. QED
      BY <3>2, <3>3
  <2>3. \E e : upto(n + 1, e)
    <3>. HIDE DEF upto, g
    <3>. QED
      BY <2>2
  <2>. HIDE DEF upto
  <2>. QED
    BY <2>3
<1>3. \A n \in Nat : n \in I
  <2>. HIDE DEF I
  <2>. QED
    BY <1>1, <1>2, Induction
<1>4. PICK F : \A n \in Nat : upto(n, F[n])
  <2>1. \A n \in Nat : \E f : upto(n, f)
    BY <1>3
  <2>. DEFINE F == [n \in Nat |-> CHOOSE f : upto(n, f)]
  <2>2. \A n \in Nat : F[n] = CHOOSE f : upto(n, f)
    OBVIOUS
  <2>3. \A n \in Nat : upto(n, CHOOSE f : upto(n, f))
    <3>. TAKE n \in Nat
    <3>1. PICK f : upto(n, f)
      BY <2>1
    <3>. HIDE DEF upto
    <3>. QED
      BY <3>1
  <2>. HIDE DEF upto, F
  <2>. QED
    BY <2>2, <2>3
<1>5. \A n \in Nat : \A k \in 0 .. n - 1 : F[n][k + 1] = G[k + 1][F[n][k]]
  BY <1>4
<1>6. \A n \in Nat : F[n] \in [0 .. n -> T] /\ F[n][0] = z
  BY <1>4
<1>. HIDE DEF upto
<1>7. \A n \in Nat : \A k \in 0 .. n : F[n + 1][k] = F[n][k]
  <2>. TAKE n \in Nat
  <2>. DEFINE J == {k \in Nat : k <= n => F[n + 1][k] = F[n][k]}
  <2>1. 0 \in J
    <3>1. n + 1 \in Nat
      OBVIOUS
    <3>2. F[n + 1][0] = z /\ F[n][0] = z
      BY <1>6, <3>1
    <3>. QED
      BY <3>2
  <2>2. ASSUME NEW k \in Nat, k \in J PROVE k + 1 \in J
    <3>. SUFFICES ASSUME k + 1 <= n PROVE F[n + 1][k + 1] = F[n][k + 1]
      OBVIOUS
    <3>1. F[n + 1][k + 1] = G[k + 1][F[n + 1][k]] /\ F[n][k + 1] = G[k + 1][F[n][k]]
      <4>1. k \in 0 .. (n + 1) - 1 /\ k \in 0 .. n - 1
        OBVIOUS
      <4>. QED
        BY <1>5, <4>1
    <3>. QED
      BY <2>2, <3>1
  <2>3. Nat \subseteq J
    <3>. HIDE DEF J
    <3>. QED
      BY <2>1, <2>2, Induction
  <2>. QED
    BY <2>3
<1>. DEFINE h == [n \in Nat |-> F[n][n]]
<1>8. h \in [Nat -> T] /\ h[0] = z
  BY <1>6
<1>9. ASSUME NEW n \in Nat PROVE h[n + 1] = G[n + 1][h[n]]
  <2>1. F[n + 1][n + 1] = G[n + 1][F[n + 1][n]]
    BY <1>5
  <2>2. F[n + 1][n] = F[n][n]
    BY <1>7
  <2>. QED
    BY <2>1, <2>2
<1>. HIDE DEF h
<1>. QED
  BY <1>8, <1>9 DEF unfolds

\* What stays in a list without copies when the pages of S are taken out.
LEMMA Without ==
    ASSUME NEW S, NEW T, NEW list \in Seq(T),
           \A i, j \in 1 .. Len(list) : list[i] = list[j] => i = j
    PROVE  /\ without(list, S) \in Seq(T)
           /\ ToSet(without(list, S)) = ToSet(list) \ S
           /\ \A i, j \in 1 .. Len(without(list, S)) :
                  without(list, S)[i] = without(list, S)[j] => i = j
<1>. DEFINE U == {list[n] : n \in Nat}
            R(f) == f = [n \in Nat |-> IF n = 0 THEN <<>>
                                       ELSE IF list[n] \in S THEN f[n - 1]
                                       ELSE Append(f[n - 1], list[n])]
            G == [n \in Nat |-> [q \in Seq(U) |->
                    IF list[n] \in S THEN q ELSE Append(q, list[n])]]
            kept == CHOOSE f : R(f)
<1>1. \E f : R(f)
  <2>1. \A n \in Nat : list[n] \in U
    OBVIOUS
  <2>2. <<>> \in Seq(U)
    OBVIOUS
  <2>3. G \in [Nat -> [Seq(U) -> Seq(U)]]
    <3>. HIDE DEF U
    <3>. QED
      BY <2>1
  <2>4. \A n \in Nat, q \in Seq(U) :
           G[n][q] = IF list[n] \in S THEN q ELSE Append(q, list[n])
    <3>. HIDE DEF U
    <3>. QED
      OBVIOUS
  <2>5. PICK f \in [Nat -> Seq(U)] : f[0] = <<>> /\ \A n \in Nat : f[n + 1] = G[n + 1][f[n]]
    <3>1. PICK V : V = Seq(U)
      OBVIOUS
    <3>2. PICK z \in V : z = <<>>
      BY <2>2, <3>1
    <3>3. PICK H \in [Nat -> [V -> V]] : H = G
      BY <2>3, <3>1
    <3>4. \E f \in [Nat -> V] : unfolds(f, z, H)
      BY <3>2, <3>3, Recursion
    <3>. HIDE DEF G, U
    <3>. QED
      BY <3>1, <3>2, <3>3, <3>4 DEF unfolds
  <2>. HIDE DEF G, U
  <2>6. ASSUME NEW n \in Nat
        PROVE  f[n] = IF n = 0 THEN <<>>
                      ELSE IF list[n] \in S THEN f[n - 1] ELSE Append(f[n - 1], list[n])
    <3>1. CASE n = 0
      BY <2>5, <3>1
    <3>2. CASE n # 0
      <4>1. n - 1 \in Nat /\ (n - 1) + 1 = n
        BY <3>2
      <4>2. f[n] = G[n][f[n - 1]] /\ f[n - 1] \in Seq(U)
        BY <2>5, <4>1
      <4>. QED
        BY <2>4, <3>2, <4>2
    <3>. QED
      BY <3>1, <3>2
  <2>7. R(f)
    BY <2>6
  <2>. HIDE DEF R
  <2>. QED
    BY <2>7
<1>2. R(kept)
  <2>. HIDE DEF R
  <2>. QED
    BY <1>1
<1>3. without(list, S) = kept[Len(list)]
  BY DEF without
<1>4. /\ kept[0] = <<>>
      /\ \A n \in Nat : kept[n + 1] = IF list[n + 1] \in S THEN kept[n]
                                      ELSE Append(kept[n], list[n + 1])
  <2>. HIDE DEF kept
  <2>1. \A n \in Nat : kept[n] = IF n = 0 THEN <<>>
                                ELSE IF list[n] \in S THEN kept[n - 1]
                                ELSE Append(kept[n - 1], list[n])
    <3>1. kept = [n \in Nat |-> IF n = 0 THEN <<>>
                                ELSE IF list[n] \in S THEN kept[n - 1]
                                ELSE Append(kept[n - 1], list[n])]
      BY <1>2
    <3>. QED
      BY <3>1
  <2>2. ASSUME NEW n \in Nat
        PROVE  kept[n + 1] = IF list[n + 1] \in S THEN kept[n] ELSE Append(kept[n], list[n + 1])
    <3>1. n + 1 \in Nat /\ n + 1 # 0 /\ (n + 1) - 1 = n
      OBVIOUS
    <3>. QED
      BY <2>1, <3>1
  <2>. QED
    BY <2>1, <2>2
<1>. HIDE DEF kept, R, G, U
<1>. DEFINE Good(n) == /\ kept[n] \in Seq(T)
                       /\ ToSet(kept[n]) = {list[i] : i \in 1 .. n} \ S
                       /\ \A i, j \in 1 .. Len(kept[n]) : kept[n][i] = kept[n][j] => i = j
            I == {n \in Nat : n <= Len(list) => Good(n)}
<1>5. 0 \in I
  <2>1. kept[0] \in Seq(T) /\ Len(kept[0]) = 0 /\ ToSet(kept[0]) = {}
    BY <1>4 DEF ToSet
  <2>2. {list[i] : i \in 1 .. 0} = {} /\ 1 .. 0 = {}
    OBVIOUS
  <2>. QED
    BY <2>1, <2>2
<1>6. ASSUME NEW n \in Nat, n \in I PROVE n + 1 \in I
  <2>. SUFFICES ASSUME n + 1 <= Len(list) PROVE Good(n + 1)
    OBVIOUS
  <2>1. Good(n) /\ list[n + 1] \in T /\ {list[i] : i \in 1 .. n + 1} = {list[i] : i \in 1 .. n} \cup {list[n + 1]}
    <3>1. 1 .. n + 1 = (1 .. n) \cup {n + 1}
      OBVIOUS
    <3>2. Good(n) /\ list[n + 1] \in T
      BY <1>6
    <3>. QED
      BY <3>1, <3>2
  <2>2. CASE list[n + 1] \in S
    BY <1>4, <2>1, <2>2
  <2>3. CASE list[n + 1] \notin S
    <3>1. kept[n + 1] = Append(kept[n], list[n + 1])
      BY <1>4, <2>3
    <3>2. list[n + 1] \notin {list[i] : i \in 1 .. n}
      OBVIOUS
    <3>3. PICK k, e : k = kept[n] /\ e = list[n + 1] /\ k \in Seq(T) /\ e \in T
      BY <2>1
    <3>4. e \notin ToSet(k)
      BY <2>1, <3>2, <3>3
    <3>5. /\ Append(k, e) \in Seq(T) /\ Len(Append(k, e)) = Len(k) + 1
          /\ \A i \in 1 .. Len(k) : Append(k, e)[i] = k[i] /\ k[i] \in ToSet(k)
          /\ Append(k, e)[Len(k) + 1] = e
          /\ ToSet(Append(k, e)) = ToSet(k) \cup {e}
      BY <3>3 DEF ToSet
    <3>6. \A i, j \in 1 .. Len(k) : k[i] = k[j] => i = j
      BY <2>1, <3>3
    <3>7. ASSUME NEW i \in 1 .. Len(k) + 1, NEW j \in 1 .. Len(k) + 1,
                 Append(k, e)[i] = Append(k, e)[j]
          PROVE  i = j
      <4>1. CASE i \in 1 .. Len(k) /\ j \in 1 .. Len(k)
        BY <3>5, <3>6, <3>7, <4>1
      <4>2. CASE i = Len(k) + 1 \/ j = Len(k) + 1
        BY <3>3, <3>4, <3>5, <3>7, <4>2
      <4>. QED
        BY <3>3, <4>1, <4>2
    <3>8. /\ kept[n + 1] = Append(k, e) /\ ToSet(kept[n + 1]) = {list[i] : i \in 1 .. n + 1} \ S
      BY <2>1, <2>3, <3>1, <3>3, <3>5
    <3>. QED
      BY <3>5, <3>7, <3>8
  <2>. QED
    BY <2>2, <2>3
<1>7. Good(Len(list))
  <2>1. Nat \subseteq I
    <3>. HIDE DEF I
    <3>. QED
      BY <1>5, <1>6, Induction
  <2>2. Len(list) \in Nat
    OBVIOUS
  <2>3. Len(list) \in I
    BY <2>1, <2>2
  <2>. QED
    BY <2>2, <2>3
<1>8. {list[i] : i \in 1 .. Len(list)} = ToSet(list)
  BY DEF ToSet
<1>. QED
  BY <1>3, <1>7, <1>8
\* A list without copies is as long as the set of its elements.
LEMMA NoCopies ==
    ASSUME NEW T, NEW list \in Seq(T), \A i, j \in 1 .. Len(list) : list[i] = list[j] => i = j
    PROVE  Len(list) = Cardinality(ToSet(list))
<1>. DEFINE I == 1 .. Len(list)
            f == [i \in I |-> list[i]]
<1>1. Len(list) \in Nat /\ IsFiniteSet(I) /\ Cardinality(I) = Len(list)
  <2>1. Len(list) \in Nat
    OBVIOUS
  <2>2. IsFiniteSet(1 .. Len(list))
    BY <2>1, FS_Interval
  <2>3. Cardinality(1 .. Len(list)) = IF 1 > Len(list) THEN 0 ELSE Len(list) - 1 + 1
    BY <2>1, FS_Interval
  <2>. QED
    BY <2>1, <2>2, <2>3
<1>2. I = DOMAIN list
  OBVIOUS
<1>3. f \in Bijection(I, ToSet(list))
  <2>1. f \in [I -> ToSet(list)] /\ \A y \in ToSet(list) : \E i \in I : f[i] = y
    BY <1>2 DEF ToSet
  <2>2. \A i, j \in I : f[i] = f[j] => i = j
    OBVIOUS
  <2>. QED
    BY <2>1, <2>2 DEF Bijection, Injection, Surjection, IsInjective
<1>4. ExistsBijection(I, ToSet(list))
  BY <1>3 DEF ExistsBijection
<1>. QED
  BY <1>1, <1>4, FS_Bijection

\* The LRU list after a visit of page p, which may be in use already.
LEMMA Visited ==
    ASSUME PagesInv, NEW p \in Pages, lru' = lru_visit(p),
           \A q \in Pages : page'[q].owner # NONE <=> q = p \/ page[q].owner # NONE
    PROVE  lru' \in Seq(Pages) /\ LruListsUsedPages' /\ LruHasNoCopies'
<1>0. lru \in Seq(Pages) /\ \A i, j \in 1 .. Len(lru) : lru[i] = lru[j] => i = j
  BY DEF PagesInv, TypeOK, LruHasNoCopies
<1>1. CASE ~APPLY_LRU_EVICTION
  BY <1>0, <1>1 DEF PagesInv, LruHasNoCopies, LruListsUsedPages, lru_visit
<1>2. CASE APPLY_LRU_EVICTION
  <2>0. PICK gone : gone = {p}
    OBVIOUS
  <2>1. PICK rest : rest = without(lru, gone)
    OBVIOUS
  <2>2. /\ rest \in Seq(Pages) /\ ToSet(rest) = ToSet(lru) \ {p}
        /\ \A i, j \in 1 .. Len(rest) : rest[i] = rest[j] => i = j
    <3>1. /\ rest \in Seq(Pages) /\ ToSet(rest) = ToSet(lru) \ gone
          /\ \A i, j \in 1 .. Len(rest) : rest[i] = rest[j] => i = j
      BY <1>0, <2>1, Without
    <3>. QED
      BY <2>0, <3>1
  <2>3. lru' = <<p>> \o rest
    BY <1>2, <2>0, <2>1 DEF lru_visit
  <2>4. /\ lru' \in Seq(Pages) /\ Len(lru') = Len(rest) + 1 /\ lru'[1] = p
        /\ \A i \in 1 .. Len(lru') : i # 1 => lru'[i] = rest[i - 1] /\ i - 1 \in 1 .. Len(rest)
    BY <2>2, <2>3
  <2>5. ToSet(lru') = ToSet(rest) \cup {p}
    <3>1. DOMAIN lru' = 1 .. Len(lru') /\ DOMAIN rest = 1 .. Len(rest)
      BY <2>2, <2>4
    <3>2. \A i \in DOMAIN rest : i + 1 \in DOMAIN lru' /\ lru'[i + 1] = rest[i]
      BY <2>2, <2>3, <2>4, <3>1
    <3>3. 1 \in DOMAIN lru' /\ p \in ToSet(lru')
      BY <2>2, <2>4, <3>1 DEF ToSet
    <3>4. ToSet(rest) \subseteq ToSet(lru')
      BY <3>2 DEF ToSet
    <3>5. ToSet(lru') \subseteq ToSet(rest) \cup {p}
      BY <2>4, <3>1 DEF ToSet
    <3>. QED
      BY <3>3, <3>4, <3>5
  <2>6. \A i \in 1 .. Len(rest) : rest[i] # p
    <3>1. \A i \in 1 .. Len(rest) : rest[i] \in ToSet(rest)
      BY <2>2 DEF ToSet
    <3>. QED
      BY <2>2, <3>1
  <2>7. \A i, j \in 1 .. Len(lru') : lru'[i] = lru'[j] => i = j
    <3>. SUFFICES ASSUME NEW i \in 1 .. Len(lru'), NEW j \in 1 .. Len(lru'), lru'[i] = lru'[j]
                  PROVE  i = j
      OBVIOUS
    <3>1. CASE i # 1 /\ j # 1
      BY <2>2, <2>4, <3>1
    <3>2. CASE i = 1 \/ j = 1
      BY <2>4, <2>6, <3>2
    <3>. QED
      BY <3>1, <3>2
  <2>8. Len(lru') = Cardinality(ToSet(lru'))
    BY <2>4, <2>7, NoCopies
  <2>9. \A q \in Pages : page[q].owner # NONE <=> q \in ToSet(lru)
    BY <1>2 DEF PagesInv, LruListsUsedPages
  <2>10. \A q \in Pages : page'[q].owner # NONE <=> q \in ToSet(lru')
    BY <2>2, <2>5, <2>9
  <2>. QED
    BY <1>2, <2>4, <2>7, <2>8, <2>10 DEF LruListsUsedPages, LruHasNoCopies
<1>. QED
  BY <1>1, <1>2

\* The LRU list after the pages of S have been given back.
LEMMA Forgotten ==
    ASSUME PagesInv, NEW S, lru' = lru_forget(S),
           \A q \in Pages : page'[q].owner # NONE <=> q \notin S /\ page[q].owner # NONE
    PROVE  lru' \in Seq(Pages) /\ LruListsUsedPages' /\ LruHasNoCopies'
<1>0. lru \in Seq(Pages) /\ \A i, j \in 1 .. Len(lru) : lru[i] = lru[j] => i = j
  BY DEF PagesInv, TypeOK, LruHasNoCopies
<1>1. CASE ~APPLY_LRU_EVICTION
  BY <1>0, <1>1 DEF PagesInv, LruHasNoCopies, LruListsUsedPages, lru_forget
<1>2. CASE APPLY_LRU_EVICTION
  <2>1. lru' = without(lru, S)
    BY <1>2 DEF lru_forget
  <2>2. /\ lru' \in Seq(Pages) /\ ToSet(lru') = ToSet(lru) \ S
        /\ \A i, j \in 1 .. Len(lru') : lru'[i] = lru'[j] => i = j
    BY <1>0, <2>1, Without
  <2>3. Len(lru') = Cardinality(ToSet(lru'))
    BY <2>2, NoCopies
  <2>4. \A q \in Pages : page[q].owner # NONE <=> q \in ToSet(lru)
    BY <1>2 DEF PagesInv, LruListsUsedPages
  <2>. QED
    BY <1>2, <2>2, <2>3, <2>4 DEF LruListsUsedPages, LruHasNoCopies
<1>. QED
  BY <1>1, <1>2

\* The LRU list when no page changes hands.
LEMMA NotVisited ==
    ASSUME PagesInv, lru' = lru,
           \A q \in Pages : page'[q].owner = page[q].owner
    PROVE  lru' \in Seq(Pages) /\ LruListsUsedPages' /\ LruHasNoCopies'
<1>1. lru \in Seq(Pages) /\ LruListsUsedPages /\ LruHasNoCopies
  BY DEF PagesInv, TypeOK
<1>2. ToSet(lru') = ToSet(lru) /\ Len(lru') = Len(lru)
  OBVIOUS
<1>3. LruListsUsedPages'
  BY <1>1, <1>2 DEF LruListsUsedPages
<1>4. LruHasNoCopies'
  BY <1>1, <1>2 DEF LruHasNoCopies
<1>. QED
  BY <1>1, <1>3, <1>4

-----------------------------------------------------------------------------
(* The pages in every configuration.                                       *)

\* The slots of one page.
Exclusive(pg) ==
    \A c, d \in Blocks :
        pg.off[c] # NoSlot => pg.off[c] \notin pg.free /\ (pg.off[c] = pg.off[d] => c = d)

LEMMA SlotsArePages == SlotsHoldOneBlock <=> \A p \in Pages : Exclusive(page[p])
BY DEF SlotsHoldOneBlock, Exclusive, contains_block

LEMMA NoSlotIsNone == NoSlot \notin Slots
BY PageCacheAssumption DEF NoSlot, Slots

LEMMA ResetIsExclusive ==
    ASSUME NEW x \in Owners \cup {NONE}
    PROVE  /\ ResetPage(x) \in Page /\ Exclusive(ResetPage(x))
           /\ ResetPage(x).owner = x /\ ResetPage(x).free = Slots
           /\ \A b \in Blocks : ResetPage(x).off[b] = NoSlot
BY PageCacheAssumption DEF ResetPage, Exclusive, Page

\* A block that takes a slot of a page: the free slot that is found, if any.
LEMMA TakesSlot ==
    ASSUME NEW o \in Owners, NEW b \in Blocks, NEW v \in Values, NEW pg \in Page, Exclusive(pg),
           NEW off \in IF pg.free = {} THEN {NoSlot} ELSE pg.free,
           NEW at, at = IF pg.off[b] = NoSlot THEN off ELSE pg.off[b],
           NEW new, new = [owner |-> o, dirty |-> TRUE, off |-> [pg.off EXCEPT ![b] = at],
                           free |-> pg.free \ {off},
                           data |-> IF at = NoSlot THEN pg.data ELSE [pg.data EXCEPT ![at] = v]]
    PROVE  new \in Page /\ Exclusive(new)
<1>1. /\ pg.off \in [Blocks -> Slots \cup {NoSlot}] /\ pg.free \subseteq Slots
      /\ pg.data \in [Slots -> Values]
  BY DEF Page
<1>2. off \in Slots \cup {NoSlot} /\ at \in Slots \cup {NoSlot}
  BY <1>1
<1>3. new \in Page
  <2>1. [pg.off EXCEPT ![b] = at] \in [Blocks -> Slots \cup {NoSlot}]
    BY <1>1, <1>2
  <2>2. (IF at = NoSlot THEN pg.data ELSE [pg.data EXCEPT ![at] = v]) \in [Slots -> Values]
    BY <1>1, <1>2
  <2>. QED
    BY <1>1, <2>1, <2>2 DEF Page
<1>4. /\ new.free = pg.free \ {off}
      /\ \A c \in Blocks : new.off[c] = IF c = b THEN at ELSE pg.off[c]
  BY <1>1
<1>5. ASSUME NEW c \in Blocks, NEW d \in Blocks, new.off[c] # NoSlot
      PROVE  new.off[c] \notin new.free /\ (new.off[c] = new.off[d] => c = d)
  <2>1. CASE pg.off[b] = NoSlot /\ off # NoSlot
    <3>1. at = off /\ off \in pg.free
      BY <2>1
    <3>2. \A e \in Blocks : pg.off[e] # NoSlot => pg.off[e] # off /\ pg.off[e] \notin pg.free
      BY <3>1 DEF Exclusive
    <3>3. \A e, g \in Blocks : pg.off[e] # NoSlot /\ pg.off[e] = pg.off[g] => e = g
      BY DEF Exclusive
    <3>. QED
      BY <1>4, <1>5, <2>1, <3>1, <3>2, <3>3
  <2>2. CASE ~(pg.off[b] = NoSlot /\ off # NoSlot)
    <3>1. \A e \in Blocks : new.off[e] = pg.off[e]
      BY <1>4, <2>2
    <3>. QED
      BY <1>4, <1>5, <3>1 DEF Exclusive
  <2>. QED
    BY <2>1, <2>2
<1>. QED
  BY <1>3, <1>5 DEF Exclusive

LEMMA PagesInit == ASSUME Init PROVE PagesInv
<1>1. TypeOK
  <2>1. page \in [Pages -> Page] /\ ordered \in [Owners -> [Blocks -> Entry]]
        /\ blocks \in [Owners -> [Blocks -> Pages \cup {NoPage}]]
    BY ResetTypes DEF Init
  <2>2. disk \in [Owners -> [Blocks -> Values]] /\ reply \in Values
    BY PageCacheAssumption DEF Init
  <2>3. owner_free \in [Owners -> Seq(Pages)] /\ lru \in Seq(Pages)
    BY DEF Init
  <2>. QED
    BY <2>1, <2>2, <2>3 DEF Init, TypeOK
<1>2. \A p \in Pages : page[p] = ResetPage(NONE) /\ page[p].owner = NONE /\ Exclusive(page[p])
  BY ResetIsExclusive DEF Init
<1>3. FreeXorOwned /\ SlotsHoldOneBlock
  BY <1>2, SlotsArePages, PageCacheAssumption DEF Init, FreeXorOwned
<1>4. lru = <<>> /\ Len(lru) = 0 /\ ToSet(lru) = {}
  BY DEF Init, ToSet
<1>5. LruListsUsedPages /\ LruHasNoCopies
  BY <1>2, <1>4, FS_EmptySet DEF LruListsUsedPages, LruHasNoCopies
<1>6. PagesHaveOwners
  BY <1>2 DEF Init, PagesHaveOwners, ToSet, NoEntries
<1>7. EntriesAreCached
  BY DEF Init, EntriesAreCached, NoEntries
<1>. QED
  BY <1>1, <1>3, <1>5, <1>6, <1>7 DEF PagesInv

\* What is so when page p, with state pg, is given to owner o: p is in no page set but
\* its new owner's and, where pages hold one block, no entry leads to it.
MayTake(o, p, pg, pgs, ord) ==
    /\ pg \in Page /\ Exclusive(pg)
    /\ pgs \in [Owners -> SUBSET Pages] /\ ord \in [Owners -> [Blocks -> Entry]]
    /\ \A x \in Owners : /\ \A q \in Pages : q # p => (q \in pgs[x] <=> q \in owner_pages[x])
                         /\ p \in pgs[x] => x = o
                         /\ ToSet(owner_free[x]) \subseteq pgs[x]
    /\ \A x \in Owners, c \in Blocks : ord[x][c] # NoEntry => ord[x][c].page \in Pages
    /\ BLOCKS_PER_PAGE = 1 =>
           /\ pg.free # {} /\ \A c \in Blocks : pg.off[c] = NoSlot
           /\ \A x \in Owners, c \in Blocks : ord[x][c] # NoEntry =>
                  ord[x][c] = ordered[x][c] /\ ordered[x][c].page # p

\* Page p is not in the free list any more.
IsTaken(p, list, newlist) ==
    /\ newlist \in [Pages -> Nat] /\ newlist[p] = 0
    /\ \A q \in Pages : q # p => newlist[q] = list[q]

\* A block that is stored in such a page.
LEMMA StoreInv ==
    ASSUME PagesInv, NEW o \in Owners, NEW b \in Blocks, NEW v \in Values,
           NEW p \in Pages, NEW pg, NEW pgs, NEW ord,
           MayTake(o, p, pg, pgs, ord), IsTaken(p, free_pages, free_pages'),
           ~is_block_cached(o, b), store_block(o, b, v, p, pg, pgs, ord)
    PROVE  PagesInv'
<1>. DEFINE old == page[p].owner
            moved == old # o /\ old \in mapped
            ord1 == IF moved THEN [ord EXCEPT ![old][b] = NoEntry] ELSE ord
            gone == IF moved /\ pgs[old] = {} THEN {old} ELSE {}
<1>. USE DEF MayTake, IsTaken
<1>0. /\ page \in [Pages -> Page] /\ old \in Owners \cup {NONE} /\ mapped \subseteq Owners
      /\ blocks \in [Owners -> [Blocks -> Pages \cup {NoPage}]]
      /\ owner_free \in [Owners -> Seq(Pages)]
  BY DEF PagesInv, TypeOK, Page
<1>1. PICK off \in IF pg.free = {} THEN {NoSlot} ELSE pg.free :
          LET at   == IF pg.off[b] = NoSlot THEN off ELSE pg.off[b]
              left == pg.free \ {off}
          IN  /\ page' = [page EXCEPT ![p] =
                    [owner |-> o, dirty |-> TRUE,
                     off   |-> [pg.off EXCEPT ![b] = at], free |-> left,
                     data  |-> IF at = NoSlot THEN pg.data
                                              ELSE [pg.data EXCEPT ![at] = v]]]
              /\ update_owner_pages(o, p, b, off, left # {}, pgs, ord)
  BY DEF store_block, free_slots_left
<1>. DEFINE at == IF pg.off[b] = NoSlot THEN off ELSE pg.off[b]
            new == [owner |-> o, dirty |-> TRUE, off |-> [pg.off EXCEPT ![b] = at],
                    free |-> pg.free \ {off},
                    data |-> IF at = NoSlot THEN pg.data ELSE [pg.data EXCEPT ![at] = v]]
            space == pg.free \ {off} # {}
            entry == [page |-> p, off |-> off, synced |-> FALSE]
<1>2. /\ new \in Page /\ Exclusive(new) /\ new.owner = o
      /\ new.off = [pg.off EXCEPT ![b] = at]
  BY TakesSlot
<1>3. page' = [page EXCEPT ![p] = new] /\ update_owner_pages(o, p, b, off, space, pgs, ord)
  BY <1>1
<1>. HIDE DEF new
<1>4. /\ page' \in [Pages -> Page] /\ page'[p] = new
      /\ \A q \in Pages : q # p => page'[q] = page[q]
  BY <1>0, <1>2, <1>3
<1>5. /\ contents' = contents \cup {o} /\ contents' \subseteq Owners
      /\ blocks' = [blocks EXCEPT ![o][b] = p]
      /\ blocks' \in [Owners -> [Blocks -> Pages \cup {NoPage}]]
      /\ data_synced' \in [Owners -> BOOLEAN]
      /\ lru' = lru_visit(p)
      /\ UNCHANGED <<disk, reply, terminated>>
  BY DEF store_block, record_block, PagesInv, TypeOK
<1>6. ASSUME moved PROVE [pgs EXCEPT ![old] = @ \ {p}] = pgs
  <2>1. old \in Owners /\ p \notin pgs[old]
    BY <1>0, <1>6
  <2>2. pgs[old] \ {p} = pgs[old]
    BY <2>1
  <2>. QED
    BY <2>1, <2>2
<1>7. /\ mapped' = (mapped \ gone) \cup {o}
      /\ owner_pages' = [pgs EXCEPT ![o] = @ \cup {p}]
      /\ ordered' = [x \in Owners |->
              CASE x = o -> IF ord1[o][b] = NoEntry THEN [ord1[o] EXCEPT ![b] = entry] ELSE ord1[o]
                [] x # o /\ x \in gone -> NoEntries
                [] OTHER -> ord1[x]]
      /\ owner_free' = [x \in Owners |->
              CASE x = o /\ space -> Append(owner_free[o], p)
                [] x # o /\ x \in gone -> <<>>
                [] OTHER -> owner_free[x]]
  <2>1. CASE moved
    BY <1>3, <1>6, <2>1 DEF update_owner_pages
  <2>2. CASE ~moved
    BY <1>3, <2>2 DEF update_owner_pages
  <2>. QED
    BY <2>1, <2>2
<1>8. /\ ord1 \in [Owners -> [Blocks -> Entry]]
      /\ \A x \in Owners, c \in Blocks : ord1[x][c] \in {ord[x][c], NoEntry}
      /\ ord1[o] = ord[o]
  <2>1. CASE moved
    <3>1. old \in Owners
      BY <1>0, <2>1
    <3>2. NoEntry \in Entry
      BY ResetTypes
    <3>3. ord1 = [ord EXCEPT ![old] = [ord[old] EXCEPT ![b] = NoEntry]]
      BY <2>1, <3>1
    <3>. QED
      BY <2>1, <3>1, <3>2, <3>3
  <2>2. CASE ~moved
    BY <2>2
  <2>. QED
    BY <2>1, <2>2
<1>. HIDE DEF ord1
<1>9. /\ ordered' \in [Owners -> [Blocks -> Entry]]
      /\ \A x \in Owners, c \in Blocks : x # o \/ c # b => ordered'[x][c] \in {ord[x][c], NoEntry}
      /\ ordered'[o][b] = IF ord[o][b] = NoEntry THEN entry ELSE ord[o][b]
  <2>1. entry \in Entry
    <3>1. off \in Slots \cup {NoSlot}
      BY DEF Page
    <3>. QED
      BY <3>1 DEF Entry
  <2>2. NoEntries \in [Blocks -> Entry] /\ \A c \in Blocks : NoEntries[c] = NoEntry
    BY ResetTypes DEF NoEntries
  <2>3. /\ ordered'[o] \in [Blocks -> Entry]
        /\ ordered'[o][b] = IF ord[o][b] = NoEntry THEN entry ELSE ord[o][b]
        /\ \A c \in Blocks : c # b => ordered'[o][c] = ord[o][c]
    <3>1. ordered'[o] = IF ord[o][b] = NoEntry THEN [ord[o] EXCEPT ![b] = entry] ELSE ord[o]
      BY <1>7, <1>8
    <3>. HIDE DEF entry
    <3>. QED
      BY <2>1, <3>1
  <2>4. ASSUME NEW x \in Owners, x # o
        PROVE  ordered'[x] \in [Blocks -> Entry] /\ \A c \in Blocks : ordered'[x][c] \in {ord[x][c], NoEntry}
    <3>1. ordered'[x] = NoEntries \/ ordered'[x] = ord1[x]
      BY <1>7, <2>4
    <3>. QED
      BY <1>8, <2>2, <3>1
  <2>5. ordered' = [x \in Owners |-> ordered'[x]]
    BY <1>7
  <2>. HIDE DEF entry
  <2>. QED
    BY <2>3, <2>4, <2>5
<1>10. /\ owner_free' \in [Owners -> Seq(Pages)]
       /\ \A x \in Owners : \/ owner_free'[x] = <<>> \/ owner_free'[x] = owner_free[x]
                            \/ x = o /\ space /\ owner_free'[o] = Append(owner_free[o], p)
  <2>1. \A x \in Owners : \/ owner_free'[x] = <<>> \/ owner_free'[x] = owner_free[x]
                          \/ x = o /\ space /\ owner_free'[o] = Append(owner_free[o], p)
    BY <1>7
  <2>2. <<>> \in Seq(Pages) /\ \A x \in Owners : owner_free[x] \in Seq(Pages)
    BY <1>0
  <2>3. Append(owner_free[o], p) \in Seq(Pages)
    BY <2>2
  <2>4. owner_free' = [x \in Owners |-> owner_free'[x]]
    BY <1>7
  <2>. HIDE DEF space
  <2>5. \A x \in Owners : owner_free'[x] \in Seq(Pages)
    BY <2>1, <2>2, <2>3, Zenon
  <2>6. owner_free' \in [Owners -> Seq(Pages)]
    BY <2>4, <2>5, Zenon
  <2>. QED
    BY <2>1, <2>6, Zenon
<1>11. /\ owner_pages' \in [Owners -> SUBSET Pages] /\ mapped' \subseteq Owners
       /\ \A x \in Owners : pgs[x] \subseteq owner_pages'[x]
       /\ p \in owner_pages'[o]
       /\ \A x \in Owners, q \in Pages : q \in owner_pages'[x] =>
             q \in pgs[x] \/ (x = o /\ q = p)
  BY <1>0, <1>7
<1>12. lru' \in Seq(Pages) /\ LruListsUsedPages' /\ LruHasNoCopies'
  <2>1. \A q \in Pages : page'[q].owner # NONE <=> q = p \/ page[q].owner # NONE
    BY <1>2, <1>4, PageCacheAssumption
  <2>. QED
    BY <1>5, <2>1, Visited
<1>13. TypeOK'
  BY <1>4, <1>5, <1>9, <1>10, <1>11, <1>12 DEF PagesInv, TypeOK
<1>14. FreeXorOwned'
  <2>. SUFFICES ASSUME NEW q \in Pages
                PROVE  /\ free_pages'[q] = IF page'[q].owner = NONE THEN 1 ELSE 0
                       /\ \A x \in Owners : q \in owner_pages'[x] <=> page'[q].owner = x
    BY DEF FreeXorOwned
  <2>1. CASE q = p
    BY <1>2, <1>4, <1>11, <2>1, PageCacheAssumption
  <2>2. CASE q # p
    BY <1>4, <1>11, <2>2 DEF PagesInv, FreeXorOwned
  <2>. QED
    BY <2>1, <2>2
<1>15. SlotsHoldOneBlock'
  <2>1. \A q \in Pages : Exclusive(page[q])
    BY SlotsArePages DEF PagesInv
  <2>2. \A q \in Pages : Exclusive(page'[q])
    BY <1>2, <1>4, <2>1
  <2>. QED
    BY <2>2 DEF SlotsHoldOneBlock, Exclusive, contains_block
<1>16. PagesHaveOwners'
  <2>1. \A q \in Pages : page'[q].owner = NONE => page'[q] = ResetPage(NONE)
    <3>1. \A q \in Pages : page[q].owner = NONE => page[q] = ResetPage(NONE)
      BY DEF PagesInv, PagesHaveOwners
    <3>2. page'[p].owner # NONE
      BY <1>2, <1>4, PageCacheAssumption
    <3>. QED
      BY <1>4, <3>1, <3>2
  <2>2. ASSUME NEW q \in Pages, page'[q].owner # NONE PROVE page'[q].owner \in mapped'
    <3>1. CASE q = p
      BY <1>2, <1>4, <1>7, <3>1
    <3>2. CASE q # p
      <4>1. page'[q] = page[q] /\ page[q].owner \in mapped /\ page[q].owner \in Owners
        BY <1>0, <1>4, <2>2, <3>2 DEF PagesInv, PagesHaveOwners
      <4>2. q \in pgs[page[q].owner]
        BY <3>2, <4>1 DEF PagesInv, FreeXorOwned
      <4>3. page[q].owner \notin gone
        BY <4>2
      <4>. QED
        BY <1>7, <4>1, <4>3
    <3>. QED
      BY <3>1, <3>2
  <2>3. ASSUME NEW x \in Owners PROVE ToSet(owner_free'[x]) \subseteq owner_pages'[x]
    <3>1. CASE owner_free'[x] = <<>>
      BY <3>1 DEF ToSet
    <3>2. CASE owner_free'[x] = owner_free[x]
      BY <1>11, <3>2
    <3>3. CASE x = o /\ owner_free'[o] = Append(owner_free[o], p)
      <4>1. owner_free[o] \in Seq(Pages)
        BY <1>0
      <4>2. ToSet(Append(owner_free[o], p)) \subseteq ToSet(owner_free[o]) \cup {p}
        BY <4>1 DEF ToSet
      <4>. QED
        BY <1>11, <3>3, <4>2
    <3>. QED
      BY <1>10, <3>1, <3>2, <3>3
  <2>4. ASSUME BLOCKS_PER_PAGE = 1, NEW x \in Owners PROVE owner_free'[x] = <<>>
    <3>1. owner_free[x] = <<>>
      BY <2>4 DEF PagesInv, PagesHaveOwners
    <3>2. Slots = {0} /\ pg.free \subseteq Slots /\ off \in pg.free
      BY <2>4 DEF Slots, Page
    <3>3. ~space
      BY <3>2
    <3>. QED
      BY <1>10, <3>1, <3>3
  <2>5. \A x \in Owners, c \in Blocks : ordered'[x][c] # NoEntry => ordered'[x][c].page \in Pages
    BY <1>9
  <2>. QED
    BY <2>1, <2>2, <2>3, <2>4, <2>5 DEF PagesHaveOwners
<1>17. ASSUME BLOCKS_PER_PAGE = 1 PROVE EntriesAreCached'
  <2>0. EntriesAreCached
    BY <1>17 DEF PagesInv
  <2>1. ord[o][b] = NoEntry
    BY <1>17, <2>0 DEF EntriesAreCached
  <2>2. off \in Slots /\ off # NoSlot
    BY <1>17, NoSlotIsNone DEF Page
  <2>. SUFFICES ASSUME NEW x \in Owners, NEW c \in Blocks, ordered'[x][c] # NoEntry
                PROVE  /\ is_block_cached(x, c)'
                       /\ ordered'[x][c].page = blocks'[x][c]
                       /\ ordered'[x][c].off = page'[blocks'[x][c]].off[c]
    BY DEF EntriesAreCached
  <2>3. CASE x = o /\ c = b
    <3>1. ordered'[o][b] = entry /\ entry.page = p /\ entry.off = off
      BY <1>9, <2>1
    <3>2. blocks'[o][b] = p /\ page'[p].owner = o
      BY <1>0, <1>2, <1>4, <1>5
    <3>3. page'[p].off[b] = off
      BY <1>2, <1>4, <1>17 DEF Page
    <3>. QED
      BY <2>2, <2>3, <3>1, <3>2, <3>3, PageCacheAssumption DEF is_block_cached, contains_block
  <2>4. CASE ~(x = o /\ c = b)
    <3>1. /\ ordered'[x][c] = ordered[x][c] /\ ordered[x][c] # NoEntry
          /\ ordered[x][c].page # p
      BY <1>9, <1>17, <2>4
    <3>2. /\ is_block_cached(x, c) /\ ordered[x][c].page = blocks[x][c]
          /\ ordered[x][c].off = page[blocks[x][c]].off[c]
      BY <2>0, <3>1 DEF EntriesAreCached
    <3>3. blocks'[x][c] = blocks[x][c]
      BY <1>0, <1>5, <2>4
    <3>4. blocks[x][c] \in Pages /\ page'[blocks[x][c]] = page[blocks[x][c]]
      BY <1>0, <1>4, <3>1, <3>2 DEF is_block_cached
    <3>. QED
      BY <3>1, <3>2, <3>3, <3>4 DEF is_block_cached, contains_block
  <2>. QED
    BY <2>3, <2>4
<1>. QED
  BY <1>12, <1>13, <1>14, <1>15, <1>16, <1>17 DEF PagesInv

LEMMA PutOwnerPageKeeps ==
    ASSUME PagesInv, NEW o \in Owners, NEW b \in Blocks, NEW v \in Values, PutOwnerPage(o, b, v)
    PROVE  PagesInv'
<1>. DEFINE p == Last(owner_free[o])
<1>1. /\ ~is_block_cached(o, b) /\ owner_free[o] # <<>> /\ free_pages' = free_pages
      /\ store_block(o, b, v, p, page[p], owner_pages, ordered)
  BY DEF PutOwnerPage
<1>2. p \in ToSet(owner_free[o]) /\ p \in Pages
  <2>1. owner_free[o] \in Seq(Pages)
    BY DEF PagesInv, TypeOK
  <2>2. Len(owner_free[o]) \in 1 .. Len(owner_free[o])
    BY <1>1, <2>1
  <2>. QED
    BY <2>1, <2>2 DEF Last, ToSet
<1>. HIDE DEF p
<1>3. p \in owner_pages[o] /\ page[p].owner = o
  BY <1>2 DEF PagesInv, PagesHaveOwners, FreeXorOwned
<1>4. IsTaken(p, free_pages, free_pages')
  BY <1>1, <1>2, <1>3, PageCacheAssumption DEF IsTaken, PagesInv, TypeOK, FreeXorOwned
<1>5. MayTake(o, p, page[p], owner_pages, ordered)
  <2>1. /\ page[p] \in Page /\ Exclusive(page[p])
        /\ owner_pages \in [Owners -> SUBSET Pages] /\ ordered \in [Owners -> [Blocks -> Entry]]
    BY <1>2, SlotsArePages DEF PagesInv, TypeOK
  <2>2. \A x \in Owners : /\ p \in owner_pages[x] => x = o
                          /\ ToSet(owner_free[x]) \subseteq owner_pages[x]
    BY <1>2, <1>3 DEF PagesInv, PagesHaveOwners, FreeXorOwned
  <2>3. BLOCKS_PER_PAGE # 1
    BY <1>1 DEF PagesInv, PagesHaveOwners
  <2>4. \A x \in Owners, c \in Blocks : ordered[x][c] # NoEntry => ordered[x][c].page \in Pages
    BY DEF PagesInv, PagesHaveOwners
  <2>. QED
    BY <2>1, <2>2, <2>3, <2>4 DEF MayTake
<1>. QED
  BY <1>1, <1>2, <1>4, <1>5, StoreInv

LEMMA PutFreePageKeeps ==
    ASSUME PagesInv, NEW o \in Owners, NEW b \in Blocks, NEW v \in Values, PutFreePage(o, b, v)
    PROVE  PagesInv'
<1>1. PICK p \in Pages :
          /\ free_pages[p] > 0
          /\ free_pages' = [free_pages EXCEPT ![p] = @ - 1]
          /\ store_block(o, b, v, p, page[p], owner_pages, ordered)
  BY DEF PutFreePage
<1>2. free_pages[p] = 1 /\ page[p].owner = NONE
  BY <1>1 DEF PagesInv, FreeXorOwned
<1>3. page[p] = ResetPage(NONE)
  BY <1>2 DEF PagesInv, PagesHaveOwners
<1>4. IsTaken(p, free_pages, free_pages')
  BY <1>1, <1>2 DEF IsTaken, PagesInv, TypeOK
<1>5. MayTake(o, p, page[p], owner_pages, ordered)
  <2>1. /\ page[p] \in Page /\ Exclusive(page[p])
        /\ owner_pages \in [Owners -> SUBSET Pages] /\ ordered \in [Owners -> [Blocks -> Entry]]
    BY SlotsArePages DEF PagesInv, TypeOK
  <2>2. \A x \in Owners : /\ p \notin owner_pages[x]
                          /\ ToSet(owner_free[x]) \subseteq owner_pages[x]
    BY <1>2, PageCacheAssumption DEF PagesInv, PagesHaveOwners, FreeXorOwned
  <2>3. \A x \in Owners, c \in Blocks : ordered[x][c] # NoEntry => ordered[x][c].page \in Pages
    BY DEF PagesInv, PagesHaveOwners
  <2>4. page[p].free # {} /\ \A c \in Blocks : page[p].off[c] = NoSlot
    <3>1. 0 \in Slots
      BY PageCacheAssumption DEF Slots
    <3>. QED
      BY <1>3, <3>1 DEF ResetPage
  <2>5. ASSUME BLOCKS_PER_PAGE = 1, NEW x \in Owners, NEW c \in Blocks, ordered[x][c] # NoEntry
        PROVE  ordered[x][c].page # p
    BY <1>2, <2>5, PageCacheAssumption DEF PagesInv, EntriesAreCached, is_block_cached
  <2>. QED
    BY <2>1, <2>2, <2>3, <2>4, <2>5 DEF MayTake
<1>6. ~is_block_cached(o, b)
  BY DEF PutFreePage
<1>. QED
  BY <1>1, <1>4, <1>5, <1>6, StoreInv

LEMMA PutEvictKeeps ==
    ASSUME PagesInv, NEW o \in Owners, NEW b \in Blocks, NEW v \in Values, PutEvict(o, b, v)
    PROVE  PagesInv'
<1>. DEFINE p == Last(lru)
            old == page[p].owner
            ord == IF old \in mapped
                   THEN [ordered EXCEPT ![old] = [c \in Blocks |->
                            IF contains_block(p, c) THEN NoEntry ELSE @[c]]]
                   ELSE ordered
            pgs == IF old \in mapped THEN [owner_pages EXCEPT ![old] = @ \ {p}]
                                     ELSE owner_pages
<1>1. /\ APPLY_LRU_EVICTION /\ BLOCKS_PER_PAGE = 1 /\ ~is_block_cached(o, b) /\ lru # <<>>
      /\ free_pages' = free_pages
      /\ store_block(o, b, v, p, ResetPage(old), pgs, ord)
  BY PageCacheAssumption DEF PutEvict
<1>2. p \in ToSet(lru) /\ p \in Pages
  <2>1. lru \in Seq(Pages)
    BY DEF PagesInv, TypeOK
  <2>2. Len(lru) \in 1 .. Len(lru)
    BY <1>1, <2>1
  <2>. QED
    BY <2>1, <2>2 DEF Last, ToSet
<1>. HIDE DEF p
<1>3. old \in mapped /\ old \in Owners /\ old # NONE
  BY <1>1, <1>2, PageCacheAssumption DEF PagesInv, LruListsUsedPages, PagesHaveOwners, TypeOK
<1>4. IsTaken(p, free_pages, free_pages')
  BY <1>1, <1>2, <1>3 DEF IsTaken, PagesInv, TypeOK, FreeXorOwned
<1>5. MayTake(o, p, ResetPage(old), pgs, ord)
  <2>0. /\ ordered \in [Owners -> [Blocks -> Entry]] /\ owner_pages \in [Owners -> SUBSET Pages]
        /\ NoEntry \in Entry
    BY ResetTypes DEF PagesInv, TypeOK
  <2>1. /\ ord \in [Owners -> [Blocks -> Entry]]
        /\ \A x \in Owners, c \in Blocks :
              ord[x][c] = IF x = old /\ contains_block(p, c) THEN NoEntry ELSE ordered[x][c]
    BY <1>3, <2>0
  <2>2. /\ pgs \in [Owners -> SUBSET Pages]
        /\ \A x \in Owners, q \in Pages :
              q \in pgs[x] <=> q \in owner_pages[x] /\ ~(x = old /\ q = p)
    BY <1>3, <2>0
  <2>3. \A x \in Owners : /\ p \notin pgs[x] /\ ToSet(owner_free[x]) \subseteq pgs[x]
                          /\ \A q \in Pages : q # p => (q \in pgs[x] <=> q \in owner_pages[x])
    <3>1. \A x \in Owners : p \in owner_pages[x] => x = old
      BY <1>2 DEF PagesInv, FreeXorOwned
    <3>2. \A x \in Owners : owner_free[x] = <<>> /\ ToSet(owner_free[x]) = {}
      BY <1>1 DEF PagesInv, PagesHaveOwners, ToSet
    <3>. QED
      BY <1>2, <2>2, <3>1, <3>2
  <2>4. /\ ResetPage(old) \in Page /\ Exclusive(ResetPage(old))
        /\ ResetPage(old).free # {} /\ \A c \in Blocks : ResetPage(old).off[c] = NoSlot
    <3>1. 0 \in Slots
      BY PageCacheAssumption DEF Slots
    <3>2. old \in Owners \cup {NONE}
      BY <1>3
    <3>. HIDE DEF old
    <3>. QED
      BY <3>1, <3>2, ResetIsExclusive
  <2>5. ASSUME NEW x \in Owners, NEW c \in Blocks, ord[x][c] # NoEntry
        PROVE  /\ ord[x][c] = ordered[x][c] /\ ordered[x][c].page # p
               /\ ord[x][c].page \in Pages
    <3>1. ord[x][c] = ordered[x][c] /\ ~(x = old /\ contains_block(p, c))
      BY <2>1, <2>5
    <3>2. is_block_cached(x, c) /\ ordered[x][c].page = blocks[x][c] /\ ordered[x][c].page \in Pages
      BY <1>1, <2>5, <3>1 DEF PagesInv, EntriesAreCached, PagesHaveOwners
    <3>. QED
      BY <3>1, <3>2 DEF is_block_cached
  <2>. HIDE DEF ord, pgs, old
  <2>. QED
    BY <2>1, <2>2, <2>3, <2>4, <2>5 DEF MayTake
<1>. HIDE DEF ord, pgs, old
<1>. QED
  BY <1>1, <1>2, <1>4, <1>5, StoreInv

\* Steps in which no page changes its owner or its slots, and an item forgets only
\* blocks that are not cached.
LEMMA SamePagesInv ==
    ASSUME PagesInv, TypeOK', LruListsUsedPages', LruHasNoCopies',
           UNCHANGED <<free_pages, mapped, owner_pages, owner_free>>,
           \A q \in Pages : /\ page'[q].owner = page[q].owner
                            /\ page'[q].off = page[q].off
                            /\ page'[q].free = page[q].free
                            /\ page[q].owner = NONE => page'[q] = page[q],
           \A x \in Owners, c \in Blocks :
               /\ ordered'[x][c] # NoEntry => ordered[x][c] # NoEntry
               /\ ordered'[x][c].page = ordered[x][c].page
               /\ ordered'[x][c].off = ordered[x][c].off
               /\ is_block_cached(x, c) => blocks'[x][c] = blocks[x][c]
    PROVE  PagesInv'
<1>1. FreeXorOwned'
  BY DEF PagesInv, FreeXorOwned
<1>2. SlotsHoldOneBlock'
  BY DEF PagesInv, SlotsHoldOneBlock, contains_block
<1>3. PagesHaveOwners'
  BY DEF PagesInv, PagesHaveOwners
<1>4. ASSUME BLOCKS_PER_PAGE = 1 PROVE EntriesAreCached'
  <2>. SUFFICES ASSUME NEW x \in Owners, NEW c \in Blocks, ordered'[x][c] # NoEntry
                PROVE  /\ is_block_cached(x, c)'
                       /\ ordered'[x][c].page = blocks'[x][c]
                       /\ ordered'[x][c].off = page'[blocks'[x][c]].off[c]
    BY DEF EntriesAreCached
  <2>1. /\ is_block_cached(x, c) /\ ordered[x][c].page = blocks[x][c]
        /\ ordered[x][c].off = page[blocks[x][c]].off[c]
    BY <1>4 DEF PagesInv, EntriesAreCached
  <2>2. blocks[x][c] \in Pages /\ blocks'[x][c] = blocks[x][c]
    BY <2>1 DEF PagesInv, TypeOK, is_block_cached
  <2>. QED
    BY <2>1, <2>2 DEF is_block_cached, contains_block
<1>. QED
  BY <1>1, <1>2, <1>3, <1>4 DEF PagesInv

LEMMA PutHitKeeps ==
    ASSUME PagesInv, NEW o \in Owners, NEW b \in Blocks, NEW v \in Values,
           PutHit(o, b, v) \/ PutThrows(o, b, v)
    PROVE  PagesInv'
<1>. DEFINE p == blocks[o][b]
            s == page[p].off[b]
<1>0. is_block_cached(o, b) /\ page' = [page EXCEPT ![p].dirty = TRUE, ![p].data[s] = v]
  BY DEF PutHit, PutThrows
<1>1. p \in Pages /\ page[p] \in Page /\ page[p].owner = o /\ s \in Slots
  BY <1>0 DEF PagesInv, TypeOK, is_block_cached, contains_block, Page
<1>2. page' = [page EXCEPT ![p] = [page[p] EXCEPT !.dirty = TRUE, !.data[s] = v]]
  BY <1>0
<1>3. /\ page' \in [Pages -> Page]
      /\ \A q \in Pages : /\ page'[q].owner = page[q].owner
                          /\ page'[q].off = page[q].off
                          /\ page'[q].free = page[q].free
                          /\ q # p => page'[q] = page[q]
  BY <1>1, <1>2 DEF PagesInv, TypeOK, Page
<1>4. /\ contents' \subseteq Owners /\ blocks' = blocks
      /\ data_synced' \in [Owners -> BOOLEAN]
  <2>1. CASE PutHit(o, b, v)
    <3>1. blocks' = [blocks EXCEPT ![o][b] = blocks[o][b]]
      BY <2>1 DEF PutHit, record_block
    <3>2. blocks' = blocks
      BY <3>1 DEF PagesInv, TypeOK
    <3>. QED
      BY <2>1, <3>2 DEF PutHit, record_block, PagesInv, TypeOK
  <2>2. CASE PutThrows(o, b, v)
    BY <2>2 DEF PutThrows, itemVars, PagesInv, TypeOK
  <2>. QED
    BY <2>1, <2>2
<1>5. /\ ordered' \in [Owners -> [Blocks -> Entry]]
      /\ \A x \in Owners, c \in Blocks :
            /\ ordered'[x][c] # NoEntry => ordered[x][c] # NoEntry
            /\ ordered'[x][c].page = ordered[x][c].page
            /\ ordered'[x][c].off = ordered[x][c].off
  <2>1. CASE PutHit(o, b, v)
    <3>1. ordered[o][b] \in Entry /\ ordered[o][b] # NoEntry
      BY <2>1 DEF PutHit, PagesInv, TypeOK
    <3>2. [ordered[o][b] EXCEPT !.synced = FALSE] \in Entry
      BY <3>1 DEF Entry
    <3>3. ordered' = [ordered EXCEPT ![o] = [ordered[o] EXCEPT ![b] =
                         [ordered[o][b] EXCEPT !.synced = FALSE]]]
      BY <2>1 DEF PutHit, PagesInv, TypeOK
    <3>4. ordered \in [Owners -> [Blocks -> Entry]]
      BY DEF PagesInv, TypeOK
    <3>5. /\ ordered' \in [Owners -> [Blocks -> Entry]]
          /\ \A x \in Owners, c \in Blocks : x # o \/ c # b => ordered'[x][c] = ordered[x][c]
          /\ ordered'[o][b] = [ordered[o][b] EXCEPT !.synced = FALSE]
      BY <3>2, <3>3, <3>4
    <3>6. /\ ordered'[o][b].page = ordered[o][b].page
          /\ ordered'[o][b].off = ordered[o][b].off
      BY <3>1, <3>5 DEF Entry
    <3>. QED
      BY <3>1, <3>5, <3>6
  <2>2. CASE PutThrows(o, b, v)
    <3>1. ordered' = ordered
      BY <2>2 DEF PutThrows, engineVars
    <3>. QED
      BY <3>1 DEF PagesInv, TypeOK
  <2>. QED
    BY <2>1, <2>2
<1>6. /\ UNCHANGED <<free_pages, mapped, owner_pages, owner_free, lru, disk, reply>>
      /\ terminated' \in BOOLEAN
  BY DEF PutHit, PutThrows, engineVars, PagesInv, TypeOK
<1>7. TypeOK'
  BY <1>3, <1>4, <1>5, <1>6 DEF PagesInv, TypeOK
<1>8. LruListsUsedPages' /\ LruHasNoCopies'
  BY <1>3, <1>6, NotVisited
<1>9. \A q \in Pages : page[q].owner = NONE => page'[q] = page[q]
  BY <1>1, <1>3, PageCacheAssumption
<1>. QED
  BY <1>3, <1>4, <1>5, <1>6, <1>7, <1>8, <1>9, SamePagesInv

\* Calls that leave the engine alone: writes below and reads.
LEMMA ItemKeeps ==
    ASSUME PagesInv, NEW o \in Owners, NEW b \in Blocks, NEW v \in Values,
           \/ PutFull(o, b, v) \/ WriteThrough(o, b, v)
           \/ ReadHit(o, b) \/ ReadMiss(o, b) \/ GetStale(o, b)
    PROVE  PagesInv'
<1>1. UNCHANGED <<page, free_pages, mapped, owner_pages, ordered, owner_free, terminated, data_synced>>
  BY DEF PutFull, WriteThrough, ReadHit, ReadMiss, GetStale, engineVars, itemVars
<1>2. contents' \subseteq Owners
  BY DEF PagesInv, TypeOK, PutFull, WriteThrough, ReadHit, ReadMiss, GetStale,
         itemVars
<1>3. blocks' = blocks \/ (~is_block_cached(o, b) /\ blocks' = [blocks EXCEPT ![o][b] = NoPage])
  BY DEF PutFull, WriteThrough, ReadHit, ReadMiss, GetStale, itemVars
<1>4. /\ blocks' \in [Owners -> [Blocks -> Pages \cup {NoPage}]]
      /\ \A x \in Owners, c \in Blocks : is_block_cached(x, c) => blocks'[x][c] = blocks[x][c]
  <2>1. blocks \in [Owners -> [Blocks -> Pages \cup {NoPage}]]
    BY DEF PagesInv, TypeOK
  <2>2. CASE blocks' = blocks
    BY <2>1, <2>2
  <2>3. CASE ~is_block_cached(o, b) /\ blocks' = [blocks EXCEPT ![o][b] = NoPage]
    <3>1. blocks' \in [Owners -> [Blocks -> Pages \cup {NoPage}]]
      BY <2>1, <2>3
    <3>2. \A x \in Owners, c \in Blocks : x # o \/ c # b => blocks'[x][c] = blocks[x][c]
      BY <2>1, <2>3
    <3>. QED
      BY <2>3, <3>1, <3>2
  <2>. QED
    BY <1>3, <2>2, <2>3
<1>5. disk' \in [Owners -> [Blocks -> Values]]
  <2>1. disk' = disk \/ disk' = [disk EXCEPT ![o][b] = v]
    BY DEF PutFull, WriteThrough, ReadHit, ReadMiss, GetStale
  <2>2. disk \in [Owners -> [Blocks -> Values]]
    BY DEF PagesInv, TypeOK
  <2>3. CASE disk' = [disk EXCEPT ![o][b] = v]
    BY <2>2, <2>3
  <2>. QED
    BY <2>1, <2>2, <2>3
<1>6. reply' \in Values
  <2>1. CASE ReadHit(o, b)
    <3>1. blocks[o][b] \in Pages /\ page[blocks[o][b]].off[b] \in Slots
      BY <2>1 DEF ReadHit, PagesInv, TypeOK, is_block_cached, contains_block, Page
    <3>2. page[blocks[o][b]].data \in [Slots -> Values]
      BY <3>1 DEF PagesInv, TypeOK, Page
    <3>. QED
      BY <2>1, <3>1, <3>2 DEF ReadHit
  <2>2. CASE ReadMiss(o, b)
    BY <2>2 DEF ReadMiss, PagesInv, TypeOK
  <2>3. CASE ~ReadHit(o, b) /\ ~ReadMiss(o, b)
    BY <2>3 DEF PutFull, WriteThrough, GetStale, PagesInv, TypeOK
  <2>. QED
    BY <2>1, <2>2, <2>3
<1>7. lru' \in Seq(Pages) /\ LruListsUsedPages' /\ LruHasNoCopies'
  <2>1. CASE ReadHit(o, b)
    <3>1. lru' = lru_visit(blocks[o][b])
      BY <2>1 DEF ReadHit
    <3>2. blocks[o][b] \in Pages /\ page[blocks[o][b]].owner = o
      BY <2>1 DEF ReadHit, PagesInv, TypeOK, is_block_cached
    <3>3. PICK p \in Pages : p = blocks[o][b]
      BY <3>2
    <3>4. \A q \in Pages : page'[q].owner # NONE <=> q = p \/ page[q].owner # NONE
      BY <1>1, <3>2, <3>3, PageCacheAssumption
    <3>. QED
      BY <3>1, <3>3, <3>4, Visited
  <2>2. CASE ~ReadHit(o, b)
    <3>1. lru' = lru
      BY <2>2 DEF PutFull, WriteThrough, ReadMiss, GetStale
    <3>. QED
      BY <1>1, <3>1, NotVisited
  <2>. QED
    BY <2>1, <2>2
<1>8. TypeOK'
  BY <1>1, <1>2, <1>4, <1>5, <1>6, <1>7 DEF PagesInv, TypeOK
<1>. QED
  BY <1>1, <1>4, <1>7, <1>8, SamePagesInv

\* A new item has no blocks.
LEMMA CreateKeeps ==
    ASSUME PagesInv, NEW o \in Owners, CreateItem(o)
    PROVE  PagesInv'
<1>1. contents' = contents \cup {o} /\ UNCHANGED <<blocks, data_synced, page, free_pages, mapped,
             owner_pages, ordered, owner_free, lru, disk, reply, terminated>>
  BY DEF CreateItem, engineVars
<1>2. TypeOK'
  BY <1>1 DEF PagesInv, TypeOK
<1>3. LruListsUsedPages' /\ LruHasNoCopies'
  BY <1>1, NotVisited
<1>. QED
  BY <1>1, <1>2, <1>3, SamePagesInv

LEMMA SyncKeeps ==
    ASSUME PagesInv, NEW o \in Owners, SyncOwner(o)
    PROVE  PagesInv'
<1>. DEFINE F == flushed_blocks(o)
            P == {ordered[o][b].page : b \in F}
<1>0. F \subseteq Blocks /\ \A b \in F : ordered[o][b] # NoEntry
  BY DEF flushed_blocks
<1>. HIDE DEF F
<1>1. /\ page' = [p \in Pages |->
                    IF p \in P THEN [page[p] EXCEPT !.dirty = FALSE] ELSE page[p]]
      /\ ordered' = [ordered EXCEPT ![o] = [b \in Blocks |->
                       IF b \in F THEN [ordered[o][b] EXCEPT !.synced = TRUE] ELSE ordered[o][b]]]
      /\ data_synced' = [data_synced EXCEPT ![o] = TRUE]
      /\ UNCHANGED <<contents, blocks, free_pages, mapped, owner_pages, owner_free,
                     lru, reply, terminated>>
  BY DEF SyncOwner, synced_page, F
<1>2. PICK junk \in Values :
          disk' = [disk EXCEPT ![o] = [b \in Blocks |->
                     IF b \notin F THEN disk[o][b]
                     ELSE IF ordered[o][b].off = NoSlot THEN junk
                     ELSE page[ordered[o][b].page].data[ordered[o][b].off]]]
  BY DEF SyncOwner, F
<1>. HIDE DEF P
<1>3. ordered \in [Owners -> [Blocks -> Entry]] /\ page \in [Pages -> Page]
      /\ disk \in [Owners -> [Blocks -> Values]]
  BY DEF PagesInv, TypeOK
<1>4. /\ page' \in [Pages -> Page]
      /\ \A p \in Pages : /\ page'[p].owner = page[p].owner
                          /\ page'[p].off = page[p].off
                          /\ page'[p].free = page[p].free
                          /\ page'[p].data = page[p].data
                          /\ p \notin P => page'[p] = page[p]
  BY <1>1, <1>3 DEF Page
<1>5. /\ ordered' \in [Owners -> [Blocks -> Entry]]
      /\ \A x \in Owners, b \in Blocks :
            /\ ordered'[x][b] # NoEntry => ordered[x][b] # NoEntry
            /\ ordered'[x][b].page = ordered[x][b].page
            /\ ordered'[x][b].off = ordered[x][b].off
  <2>1. \A b \in Blocks : ordered[o][b] \in Entry
    BY <1>3
  <2>2. \A b \in Blocks : [ordered[o][b] EXCEPT !.synced = TRUE] \in Entry
    BY <2>1 DEF Entry
  <2>3. ordered' \in [Owners -> [Blocks -> Entry]]
    BY <1>1, <1>3, <2>1, <2>2
  <2>4. \A b \in F : ordered'[o][b] = [ordered[o][b] EXCEPT !.synced = TRUE]
    BY <1>0, <1>1, <1>3
  <2>5. \A b \in F : /\ ordered'[o][b].page = ordered[o][b].page
                     /\ ordered'[o][b].off = ordered[o][b].off
    BY <1>0, <2>1, <2>4 DEF Entry
  <2>6. \A x \in Owners, b \in Blocks : x # o \/ b \notin F => ordered'[x][b] = ordered[x][b]
    BY <1>1, <1>3
  <2>. QED
    BY <1>0, <2>3, <2>5, <2>6
<1>6. disk' \in [Owners -> [Blocks -> Values]]
  <2>1. ASSUME NEW b \in F, ordered[o][b].off # NoSlot
        PROVE  page[ordered[o][b].page].data[ordered[o][b].off] \in Values
    <3>1. ordered[o][b].page \in Pages
      BY <1>0 DEF PagesInv, PagesHaveOwners
    <3>2. ordered[o][b].off \in Slots
      BY <1>0, <1>3, <2>1 DEF Entry
    <3>3. page[ordered[o][b].page].data \in [Slots -> Values]
      BY <1>3, <3>1 DEF Page
    <3>. QED
      BY <3>2, <3>3
  <2>. QED
    BY <1>2, <1>3, <2>1
<1>7. data_synced' \in [Owners -> BOOLEAN]
  BY <1>1 DEF PagesInv, TypeOK
<1>8. TypeOK'
  BY <1>1, <1>4, <1>5, <1>6, <1>7 DEF PagesInv, TypeOK
<1>9. LruListsUsedPages' /\ LruHasNoCopies'
  BY <1>1, <1>4, NotVisited
<1>10. \A p \in Pages : page[p].owner = NONE => page'[p] = page[p]
  <2>. SUFFICES ASSUME NEW p \in Pages, page[p].owner = NONE PROVE page'[p] = page[p]
    OBVIOUS
  <2>1. ~page[p].dirty
    BY DEF PagesInv, PagesHaveOwners, ResetPage
  <2>2. p \notin P
    BY <2>1 DEF P, F, flushed_blocks
  <2>. QED
    BY <1>4, <2>2
<1>. QED
  BY <1>1, <1>4, <1>5, <1>8, <1>9, <1>10, SamePagesInv

\* The removal of the owners in S: their pages are reset, everything else stays.
LEMMA RemoveKeeps ==
    ASSUME PagesInv, NEW S, S \subseteq Owners,
           remove_cached_blocks(S), delete_items(S),
           UNCHANGED <<reply, terminated>>,
           disk' \in [Owners -> [Blocks -> Values]]
    PROVE  PagesInv'
<1>. DEFINE released == UNION {owner_pages[x] : x \in S}
<1>1. \A p \in Pages :
        /\ page[p].owner \in S => page'[p] = ResetPage(NONE) /\ free_pages'[p] = 1
        /\ page[p].owner \notin S => page'[p] = page[p] /\ free_pages'[p] = free_pages[p]
  BY RemovedPages DEF PagesInv
<1>2. page' \in [Pages -> Page] /\ free_pages' \in [Pages -> Nat]
  <2>1. /\ page' = [p \in Pages |-> page'[p]]
        /\ free_pages' = [p \in Pages |-> free_pages'[p]]
    BY DEF remove_cached_blocks
  <2>2. \A p \in Pages : page'[p] \in Page /\ free_pages'[p] \in Nat
    <3>1. ResetPage(NONE) \in Page
      BY ResetTypes
    <3>2. \A p \in Pages : page[p] \in Page /\ free_pages[p] \in Nat
      BY DEF PagesInv, TypeOK
    <3>. QED
      BY <1>1, <3>1, <3>2
  <2>. QED
    BY <2>1, <2>2
<1>3. \A x \in Owners :
        IF x \in S
        THEN /\ owner_pages'[x] = {} /\ ordered'[x] = NoEntries
             /\ owner_free'[x] = <<>> /\ blocks'[x] = NoBlocks
        ELSE /\ owner_pages'[x] = owner_pages[x] /\ ordered'[x] = ordered[x]
             /\ owner_free'[x] = owner_free[x] /\ blocks'[x] = blocks[x]
  BY DEF remove_cached_blocks, delete_items
<1>4. mapped' = mapped \ S /\ contents' = contents \ S /\ lru' = lru_forget(released)
  BY DEF remove_cached_blocks, delete_items
<1>5. /\ owner_pages' \in [Owners -> SUBSET Pages]
      /\ owner_free' \in [Owners -> Seq(Pages)]
      /\ ordered' \in [Owners -> [Blocks -> Entry]]
      /\ blocks' \in [Owners -> [Blocks -> Pages \cup {NoPage}]]
      /\ data_synced' \in [Owners -> BOOLEAN]
  <2>1. /\ owner_pages' \in [Owners -> SUBSET Pages]
        /\ owner_free' \in [Owners -> Seq(Pages)]
    BY DEF PagesInv, TypeOK, remove_cached_blocks
  <2>2. /\ ordered' \in [Owners -> [Blocks -> Entry]]
        /\ blocks' \in [Owners -> [Blocks -> Pages \cup {NoPage}]]
    BY ResetTypes DEF PagesInv, TypeOK, remove_cached_blocks, delete_items
  <2>3. data_synced' \in [Owners -> BOOLEAN]
    BY DEF PagesInv, TypeOK, delete_items
  <2>. QED
    BY <2>1, <2>2, <2>3
<1>6. \A p \in Pages : page'[p].owner = IF page[p].owner \in S THEN NONE ELSE page[p].owner
  BY <1>1, ResetIsExclusive
<1>7. lru' \in Seq(Pages) /\ LruListsUsedPages' /\ LruHasNoCopies'
  <2>1. \A p \in Pages : p \in released <=> page[p].owner \in S
    BY DEF PagesInv, FreeXorOwned
  <2>2. \A p \in Pages : page'[p].owner # NONE <=> p \notin released /\ page[p].owner # NONE
    BY <1>6, <2>1
  <2>. HIDE DEF released
  <2>. QED
    BY <1>4, <2>2, Forgotten
<1>8. TypeOK'
  BY <1>2, <1>4, <1>5, <1>7 DEF PagesInv, TypeOK
<1>9. FreeXorOwned'
  BY <1>1, <1>3, <1>6, PageCacheAssumption DEF PagesInv, FreeXorOwned
<1>10. SlotsHoldOneBlock'
  <2>1. \A p \in Pages : Exclusive(page[p])
    BY SlotsArePages DEF PagesInv
  <2>2. \A p \in Pages : Exclusive(page'[p])
    BY <1>1, <2>1, ResetIsExclusive
  <2>. QED
    BY <2>2 DEF SlotsHoldOneBlock, Exclusive, contains_block
<1>11. PagesHaveOwners'
  <2>1. \A p \in Pages : page'[p].owner = NONE => page'[p] = ResetPage(NONE)
    BY <1>1, <1>6 DEF PagesInv, PagesHaveOwners
  <2>2. \A p \in Pages : page'[p].owner # NONE => page'[p].owner \in mapped'
    BY <1>4, <1>6 DEF PagesInv, PagesHaveOwners
  <2>3. ToSet(<<>>) = {}
    BY DEF ToSet
  <2>4. \A x \in Owners : /\ ToSet(owner_free'[x]) \subseteq owner_pages'[x]
                          /\ BLOCKS_PER_PAGE = 1 => owner_free'[x] = <<>>
    BY <1>3, <2>3 DEF PagesInv, PagesHaveOwners
  <2>5. \A x \in Owners, c \in Blocks : ordered'[x][c] # NoEntry =>
            x \notin S /\ ordered'[x][c] = ordered[x][c]
    BY <1>3 DEF NoEntries
  <2>6. \A x \in Owners, c \in Blocks : ordered'[x][c] # NoEntry => ordered'[x][c].page \in Pages
    BY <2>5 DEF PagesInv, PagesHaveOwners
  <2>. QED
    BY <2>1, <2>2, <2>4, <2>6 DEF PagesHaveOwners
<1>12. ASSUME BLOCKS_PER_PAGE = 1 PROVE EntriesAreCached'
  <2>. SUFFICES ASSUME NEW x \in Owners, NEW c \in Blocks, ordered'[x][c] # NoEntry
                PROVE  /\ is_block_cached(x, c)'
                       /\ ordered'[x][c].page = blocks'[x][c]
                       /\ ordered'[x][c].off = page'[blocks'[x][c]].off[c]
    BY DEF EntriesAreCached
  <2>1. x \notin S /\ ordered'[x][c] = ordered[x][c] /\ blocks'[x][c] = blocks[x][c]
    BY <1>3 DEF NoEntries
  <2>2. /\ is_block_cached(x, c) /\ ordered[x][c].page = blocks[x][c]
        /\ ordered[x][c].off = page[blocks[x][c]].off[c]
    BY <1>12, <2>1 DEF PagesInv, EntriesAreCached
  <2>3. blocks[x][c] \in Pages /\ page[blocks[x][c]].owner = x
    BY <2>2 DEF PagesInv, TypeOK, is_block_cached
  <2>4. page'[blocks[x][c]] = page[blocks[x][c]]
    BY <1>1, <2>1, <2>3
  <2>. QED
    BY <2>1, <2>2, <2>4 DEF is_block_cached, contains_block
<1>. QED
  BY <1>7, <1>8, <1>9, <1>10, <1>11, <1>12 DEF PagesInv

\* One step per operation, in every configuration.
LEMMA PagesNext ==
    ASSUME PagesInv, [Next]_vars
    PROVE  PagesInv'
<1>1. ASSUME NEW o \in Owners, NEW b \in Blocks, NEW v \in Values, Put(o, b, v)
      PROVE  PagesInv'
  BY <1>1, PutHitKeeps, PutOwnerPageKeeps, PutFreePageKeeps, PutEvictKeeps, ItemKeeps DEF Put
<1>2. ASSUME NEW o \in Owners, NEW b \in Blocks,
             ReadHit(o, b) \/ ReadMiss(o, b) \/ GetStale(o, b)
      PROVE  PagesInv'
  BY <1>2, ItemKeeps, PageCacheAssumption
<1>3. ASSUME NEW o \in Owners, CreateItem(o)
      PROVE  PagesInv'
  BY <1>3, CreateKeeps
<1>4. ASSUME NEW o \in Owners, SyncOwner(o)
      PROVE  PagesInv'
  BY <1>4, SyncKeeps
<1>5. ASSUME NEW o \in Owners, RemoveItem(o)
      PROVE  PagesInv'
  <2>1. disk' \in [Owners -> [Blocks -> Values]]
    BY <1>5, PageCacheAssumption DEF RemoveItem, PagesInv, TypeOK
  <2>2. PICK S : S = {o}
    OBVIOUS
  <2>3. /\ remove_cached_blocks(S) /\ delete_items(S)
        /\ UNCHANGED <<reply, terminated>> /\ S \subseteq Owners
    BY <1>5, <2>2 DEF RemoveItem
  <2>. QED
    BY <2>1, <2>3, RemoveKeeps
<1>6. ASSUME ClearAll
      PROVE  PagesInv'
  <2>1. disk' \in [Owners -> [Blocks -> Values]] /\ contents \subseteq Owners
    BY <1>6 DEF ClearAll, PagesInv, TypeOK
  <2>2. /\ remove_cached_blocks(contents) /\ delete_items(contents)
        /\ UNCHANGED <<reply, terminated>>
    BY <1>6 DEF ClearAll
  <2>. QED
    BY <2>1, <2>2, RemoveKeeps
<1>7. CASE UNCHANGED vars
  BY <1>7 DEF vars, PagesInv, TypeOK, FreeXorOwned, SlotsHoldOneBlock, LruListsUsedPages,
              PagesHaveOwners, LruHasNoCopies, EntriesAreCached, is_block_cached, contains_block
<1>. QED
  BY <1>1, <1>2, <1>3, <1>4, <1>5, <1>6, <1>7 DEF Next

-----------------------------------------------------------------------------
(* What readers of other blocks see of an eviction.                        *)

\* A reader sees the same if the block stays cached in the same slot with the same
\* content, or stays uncached and has the same content on the disk.
LEMMA SameView ==
    ASSUME NEW o \in Owners, NEW b \in Blocks, is_block_cached(o, b)' <=> is_block_cached(o, b),
           is_block_cached(o, b) =>
               /\ blocks'[o][b] = blocks[o][b]
               /\ page'[blocks[o][b]].off[b] = page[blocks[o][b]].off[b]
               /\ page'[blocks[o][b]].data[page[blocks[o][b]].off[b]] =
                      page[blocks[o][b]].data[page[blocks[o][b]].off[b]],
           ~is_block_cached(o, b) => disk'[o][b] = disk[o][b]
    PROVE  view(o, b)' = view(o, b)
BY DEF view

\* A page that is reset and given to block b of owner o leaves every other block where
\* it is, or takes it out of the cache.
LEMMA TakenView ==
    ASSUME PagesInv, NEW o \in Owners, NEW b \in Blocks, NEW v \in Values, NEW p \in Pages,
           NEW x \in Owners, NEW c \in Blocks, x # o \/ c # b,
           NEW pg, \A d \in Blocks : pg.off[d] = NoSlot, NEW pgs, NEW ord, pg \in Page,
           store_block(o, b, v, p, pg, pgs, ord)
    PROVE  view(x, c)' = view(x, c) \/ view(x, c)' = disk[x][c]
<1>1. PICK off, at \in Slots \cup {NoSlot} :
          page' = [page EXCEPT ![p] =
              [owner |-> o, dirty |-> TRUE,
               off   |-> [pg.off EXCEPT ![b] = at], free |-> free_slots_left(pg, off),
               data  |-> IF at = NoSlot THEN pg.data ELSE [pg.data EXCEPT ![at] = v]]]
  BY DEF store_block, Page
<1>2. /\ page'[p].owner = o /\ \A d \in Blocks : d # b => page'[p].off[d] = NoSlot
      /\ \A q \in Pages : q # p => page'[q] = page[q]
  BY <1>1 DEF PagesInv, TypeOK, Page
<1>3. blocks'[x][c] = blocks[x][c] /\ disk' = disk /\ blocks[x][c] \in Pages \cup {NoPage}
  BY DEF store_block, record_block, PagesInv, TypeOK
<1>4. CASE blocks[x][c] = p
  <2>1. ~is_block_cached(x, c)'
    BY <1>2, <1>3, <1>4 DEF is_block_cached, contains_block
  <2>. QED
    BY <1>3, <2>1 DEF view
<1>5. CASE blocks[x][c] # p
  BY <1>2, <1>3, <1>5, SameView DEF is_block_cached, contains_block
<1>. QED
  BY <1>4, <1>5

\* What one step does to what a reader sees, with one block per page.
LEMMA StepView ==
    ASSUME BLOCKS_PER_PAGE = 1, PagesInv, Next, NEW o \in Owners, NEW b \in Blocks,
           \A v \in Values : ~Put(o, b, v), ~ClearAll, ~RemoveItem(o)
    PROVE  view(o, b)' = view(o, b) \/ view(o, b)' = disk[o][b]
<1>0. blocks[o][b] \in Pages \cup {NoPage}
  BY DEF PagesInv, TypeOK
<1>1. ASSUME NEW x \in Owners, NEW c \in Blocks, NEW v \in Values, Put(x, c, v)
      PROVE  view(o, b)' = view(o, b) \/ view(o, b)' = disk[o][b]
  <2>0. x # o \/ c # b
    BY <1>1
  <2>1. CASE PutHit(x, c, v) \/ PutThrows(x, c, v)
    <3>. DEFINE p == blocks[x][c]
                s == page[p].off[c]
    <3>1. /\ is_block_cached(x, c) /\ disk' = disk
          /\ page' = [page EXCEPT ![p].dirty = TRUE, ![p].data[s] = v]
      BY <2>1 DEF PutHit, PutThrows
    <3>2. p \in Pages /\ page[p] \in Page /\ page[p].owner = x /\ s \in Slots /\ s # NoSlot
      BY <3>1 DEF PagesInv, TypeOK, is_block_cached, contains_block, Page
    <3>3. page' = [page EXCEPT ![p] = [page[p] EXCEPT !.dirty = TRUE, !.data[s] = v]]
      BY <3>1
    <3>4. \A q \in Pages : /\ page'[q].owner = page[q].owner
                           /\ page'[q].off = page[q].off
                           /\ q # p => page'[q] = page[q]
      BY <3>2, <3>3 DEF PagesInv, TypeOK, Page
    <3>5. \A t \in Slots : t # s => page'[p].data[t] = page[p].data[t]
      BY <3>2, <3>3 DEF PagesInv, TypeOK, Page
    <3>6. blocks'[o][b] = blocks[o][b]
      BY <2>0, <2>1 DEF PutHit, PutThrows, itemVars, record_block, PagesInv, TypeOK
    <3>7. is_block_cached(o, b)' <=> is_block_cached(o, b)
      BY <1>0, <3>4, <3>6 DEF is_block_cached, contains_block
    <3>8. ASSUME is_block_cached(o, b), blocks[o][b] = p
          PROVE  page'[p].data[page[p].off[b]] = page[p].data[page[p].off[b]]
      <4>1. c # b /\ page[p].off[b] \in Slots /\ page[p].off[b] # NoSlot
        BY <2>0, <3>2, <3>8 DEF is_block_cached, contains_block, Page
      <4>2. page[p].off[b] # s
        BY <3>2, <4>1 DEF PagesInv, SlotsHoldOneBlock, contains_block
      <4>. QED
        BY <3>5, <4>1, <4>2
    <3>9. is_block_cached(o, b) =>
             page'[blocks[o][b]].data[page[blocks[o][b]].off[b]] =
                 page[blocks[o][b]].data[page[blocks[o][b]].off[b]]
      BY <1>0, <3>4, <3>8 DEF is_block_cached
    <3>10. is_block_cached(o, b) => blocks[o][b] \in Pages
      BY <1>0 DEF is_block_cached
    <3>. QED
      BY <3>1, <3>4, <3>6, <3>7, <3>9, <3>10, SameView
  <2>2. CASE PutOwnerPage(x, c, v)
    BY <2>2 DEF PutOwnerPage, PagesInv, PagesHaveOwners
  <2>3. CASE PutFreePage(x, c, v)
    <3>1. PICK p \in Pages :
              free_pages[p] > 0 /\ store_block(x, c, v, p, page[p], owner_pages, ordered)
      BY <2>3 DEF PutFreePage
    <3>2. page[p] = ResetPage(NONE)
      BY <3>1 DEF PagesInv, FreeXorOwned, PagesHaveOwners
    <3>3. page[p] \in Page /\ \A d \in Blocks : page[p].off[d] = NoSlot
      BY <3>2, ResetIsExclusive
    <3>. QED
      BY <2>0, <3>1, <3>3, TakenView
  <2>4. CASE PutEvict(x, c, v)
    <3>1. PICK pgs, ord :
              store_block(x, c, v, Last(lru), ResetPage(page[Last(lru)].owner), pgs, ord)
      BY <2>4 DEF PutEvict
    <3>2. Last(lru) \in Pages
      BY <2>4 DEF PutEvict, PagesInv, TypeOK, Last
    <3>3. PICK p \in Pages : p = Last(lru)
      BY <3>2
    <3>4. page[p].owner \in Owners \cup {NONE}
      BY DEF PagesInv, TypeOK, Page
    <3>5. PICK pg : pg = ResetPage(page[p].owner)
      OBVIOUS
    <3>6. pg \in Page /\ \A d \in Blocks : pg.off[d] = NoSlot
      BY <3>4, <3>5, ResetIsExclusive
    <3>7. store_block(x, c, v, p, pg, pgs, ord)
      BY <3>1, <3>3, <3>5
    <3>. QED
      BY <2>0, <3>6, <3>7, TakenView
  <2>5. CASE PutFull(x, c, v) \/ WriteThrough(x, c, v)
    <3>1. page' = page /\ blocks'[o][b] = blocks[o][b] /\ disk'[o][b] = disk[o][b]
      <4>1. page' = page /\ disk' = [disk EXCEPT ![x][c] = v]
        BY <2>5 DEF PutFull, WriteThrough
      <4>2. blocks' = blocks \/ blocks' = [blocks EXCEPT ![x][c] = NoPage]
        BY <2>5 DEF PutFull, WriteThrough, itemVars
      <4>3. blocks \in [Owners -> [Blocks -> Pages \cup {NoPage}]]
        BY DEF PagesInv, TypeOK
      <4>4. disk \in [Owners -> [Blocks -> Values]]
        BY DEF PagesInv, TypeOK
      <4>5. disk'[o][b] = disk[o][b]
        BY <2>0, <4>1, <4>4
      <4>6. blocks'[o][b] = blocks[o][b]
        BY <2>0, <4>2, <4>3
      <4>. QED
        BY <4>1, <4>5, <4>6
    <3>. QED
      BY <3>1, SameView DEF is_block_cached, contains_block
  <2>. QED
    BY <1>1, <2>1, <2>2, <2>3, <2>4, <2>5 DEF Put
<1>2. ASSUME NEW x \in Owners, NEW c \in Blocks,
             ReadHit(x, c) \/ ReadMiss(x, c) \/ GetStale(x, c)
      PROVE  view(o, b)' = view(o, b)
  <2>1. page' = page /\ disk' = disk
    BY <1>2 DEF ReadHit, ReadMiss, GetStale
  <2>2. \/ blocks'[o][b] = blocks[o][b]
        \/ ~is_block_cached(o, b) /\ blocks'[o][b] = NoPage
    BY <1>2 DEF ReadHit, ReadMiss, GetStale, itemVars, PagesInv, TypeOK
  <2>. QED
    BY <2>1, <2>2, SameView DEF is_block_cached, contains_block
<1>3. ASSUME NEW x \in Owners, CreateItem(x)
      PROVE  view(o, b)' = view(o, b)
  BY <1>3 DEF CreateItem, view, is_block_cached, contains_block
<1>4. ASSUME NEW x \in Owners, SyncOwner(x)
      PROVE  view(o, b)' = view(o, b)
  <2>. DEFINE F == flushed_blocks(x)
              P == {ordered[x][c].page : c \in F}
  <2>1. /\ blocks' = blocks
        /\ page' = [p \in Pages |-> IF p \in P THEN [page[p] EXCEPT !.dirty = FALSE] ELSE page[p]]
        /\ x # o \/ b \notin F => disk'[o][b] = disk[o][b]
    BY <1>4 DEF SyncOwner, synced_page, F, PagesInv, TypeOK
  <2>2. \A p \in Pages : /\ page'[p].owner = page[p].owner /\ page'[p].off = page[p].off
                         /\ page'[p].data = page[p].data
    BY <2>1 DEF PagesInv, TypeOK, Page
  <2>3. ~is_block_cached(o, b) => x # o \/ b \notin F
    BY DEF F, flushed_blocks, PagesInv, EntriesAreCached
  <2>. HIDE DEF F, P
  <2>4. is_block_cached(o, b) => blocks[o][b] \in Pages
    BY <1>0 DEF is_block_cached
  <2>5. is_block_cached(o, b)' <=> is_block_cached(o, b)
    BY <1>0, <2>1, <2>2 DEF is_block_cached, contains_block
  <2>. QED
    BY <2>1, <2>2, <2>3, <2>4, <2>5, SameView
<1>5. ASSUME NEW x \in Owners, RemoveItem(x)
      PROVE  view(o, b)' = view(o, b)
  <2>1. x # o
    BY <1>5
  <2>2. PICK S : S = {x}
    OBVIOUS
  <2>3. /\ remove_cached_blocks(S) /\ S \subseteq Owners /\ o \notin S
        /\ blocks'[o] = blocks[o] /\ disk'[o] = disk[o]
    BY <1>5, <2>1, <2>2 DEF RemoveItem, delete_items, PagesInv, TypeOK
  <2>4. \A p \in Pages :
          /\ page[p].owner \in S => page'[p] = ResetPage(NONE)
          /\ page[p].owner \notin S => page'[p] = page[p]
    BY <2>3, RemovedPages DEF PagesInv
  <2>5. \A p \in Pages : page[p].owner \in S => page'[p].owner = NONE
    BY <2>4, ResetIsExclusive
  <2>6. is_block_cached(o, b)' <=> is_block_cached(o, b)
    BY <1>0, <2>3, <2>4, <2>5, PageCacheAssumption DEF is_block_cached, contains_block
  <2>7. is_block_cached(o, b) => page'[blocks[o][b]] = page[blocks[o][b]]
    BY <1>0, <2>3, <2>4 DEF is_block_cached
  <2>. QED
    BY <2>3, <2>6, <2>7, SameView
<1>. QED
  BY <1>1, <1>2, <1>3, <1>4, <1>5 DEF Next

-----------------------------------------------------------------------------
(* The theorems, for every configuration.                                  *)

\* Whatever the number of blocks per page, with eviction and without, every operation
\* keeps the pages, the free list, the owners' page sets and the LRU list consistent.
THEOREM PagesInvariant == Spec => []PagesInv
<1>1. Init => PagesInv
  BY PagesInit
<1>2. PagesInv /\ [Next]_vars => PagesInv'
  BY PagesNext
<1>. QED
  BY <1>1, <1>2, PTL DEF Spec

\* Every operation keeps the kinds of the engine's values: a page's offsets are slots
\* or -1, the lists hold pages, the counters of the free list do not become negative.
THEOREM TypeCorrect == Spec => []TypeOK
<1>1. PagesInv => TypeOK
  BY DEF PagesInv
<1>. QED
  BY <1>1, PagesInvariant, PTL

\* No page is lost or handed out twice, whatever is written, synced, evicted, removed
\* or cleared.
THEOREM PagesAreFreeOrOwned == Spec => []FreeXorOwned
<1>1. PagesInv => FreeXorOwned
  BY DEF PagesInv
<1>. QED
  BY <1>1, PagesInvariant, PTL

\* Two blocks never share a slot of a page, although _get_next_free_offset is asked
\* again when the page is full and its failure is taken for success.
THEOREM SlotsAreExclusive == Spec => []SlotsHoldOneBlock
<1>1. PagesInv => SlotsHoldOneBlock
  BY DEF PagesInv
<1>. QED
  BY <1>1, PagesInvariant, PTL

\* With eviction the LRU list has every page in use exactly once, so there is a page
\* to evict whenever no page is free.
THEOREM LruIsComplete == Spec => []LruListsUsedPages
<1>1. PagesInv => LruListsUsedPages
  BY DEF PagesInv
<1>. QED
  BY <1>1, PagesInvariant, PTL

\* With one block per page a reader whose block was evicted gets what the disk has,
\* never a part of the block or of the file that took the page.
THEOREM EvictedReadsTheDisk ==
    ASSUME BLOCKS_PER_PAGE = 1
    PROVE  Spec => EvictionShowsTheDisk
<1>. DEFINE Step == \A o \in Owners, b \in Blocks :
                       view(o, b)' # view(o, b) =>
                           \/ \E v \in Values : Put(o, b, v)
                           \/ ClearAll \/ RemoveItem(o)
                           \/ view(o, b)' = disk[o][b]
<1>1. ASSUME PagesInv, [Next]_vars PROVE [Step]_vars
  <2>1. CASE Next
    BY <1>1, <2>1, StepView
  <2>2. CASE UNCHANGED vars
    BY <2>2
  <2>. QED
    BY <1>1, <2>1, <2>2
<1>. QED
  BY <1>1, PagesInvariant, PTL DEF Spec, EvictionShowsTheDisk

-----------------------------------------------------------------------------
(* The theorems about the configuration of the README.                     *)

\* In the recommended configuration the inductive invariant of the engine
\* holds in every reachable state, for any files, blocks, pages and contents.
THEOREM EngineInvariant ==
    ASSUME OneBlockNoEviction
    PROVE  Spec => []EngineInv
<1>1. Init => EngineInv
  BY InitInv
<1>2. EngineInv /\ [Next]_vars => EngineInv'
  BY NextInv
<1>. QED
  BY <1>1, <1>2, PTL DEF Spec

\* The item's table, the engine's ordered map and the pages agree on every
\* block: sync_pages, which walks only the ordered map, misses none.
THEOREM BlockTablesAgree ==
    ASSUME OneBlockNoEviction
    PROVE  Spec => []TablesAgree
<1>1. EngineInv => TablesAgree
  BY DEF EngineInv
<1>. QED
  BY <1>1, EngineInvariant, PTL

\* An item whose sync flag is set has nothing to lose.
THEOREM SyncedIsDurable ==
    ASSUME OneBlockNoEviction
    PROVE  Spec => []SyncFlagMeansDurable
<1>1. EngineInv => SyncFlagMeansDurable
  BY DEF EngineInv, FlagsAgree, SyncFlagMeansDurable, view
<1>. QED
  BY <1>1, EngineInvariant, PTL

\* Whatever a crash would lose is in the unsynced-data report.
THEOREM EveryLossIsReported ==
    ASSUME OneBlockNoEviction
    PROVE  Spec => []LossIsReported
<1>1. EngineInv => LossIsReported
  <2>. SUFFICES ASSUME EngineInv, NEW o \in Owners, NEW b \in Blocks,
                       view(o, b) # disk[o][b]
                PROVE  b \in dirty_blocks_info(o)
    BY DEF LossIsReported
  <2>1. is_block_cached(o, b)
    BY DEF view
  <2>2. page[blocks[o][b]].dirty
    BY <2>1 DEF EngineInv, FlagsAgree, view
  <2>3. ~ordered[o][b].synced /\ ~data_synced[o] /\ ordered[o][b] # NoEntry
    BY <2>1, <2>2 DEF EngineInv, FlagsAgree, TablesAgree
  <2>4. o \in contents
    BY <2>3 DEF EngineInv, OwnersHaveItems
  <2>. QED
    BY <2>3, <2>4 DEF dirty_blocks_info
<1>. QED
  BY <1>1, EngineInvariant, PTL

\* No operation ends in the std::out_of_range of an ordered-map lookup.
THEOREM NoOperationThrows ==
    ASSUME OneBlockNoEviction
    PROVE  Spec => []NeverThrows
<1>1. EngineInv => NeverThrows
  BY DEF EngineInv
<1>. QED
  BY <1>1, EngineInvariant, PTL

-----------------------------------------------------------------------------
(* The page cache implements the abstract block store of BlockStore, for   *)
(* any number of files, blocks, pages and contents, in the configuration   *)
(* with one block per page and no eviction: every step of the engine is a  *)
(* step of the store or a stutter.                                         *)

\* Where a cached block is: in slot 0 of a page of its owner.
LEMMA CachedAt ==
    ASSUME OneBlockNoEviction, EngineInv, NEW x \in Owners, NEW c \in Blocks,
           is_block_cached(x, c)
    PROVE  /\ blocks[x][c] \in Pages
           /\ page[blocks[x][c]] \in Page
           /\ page[blocks[x][c]].owner = x
           /\ page[blocks[x][c]].off[c] = 0
           /\ contains_block(blocks[x][c], c)
<1>1. blocks[x][c] \in Pages /\ page[blocks[x][c]] \in Page
  BY DEF EngineInv, TypeOK, is_block_cached
<1>2. page[blocks[x][c]].off[c] \in Slots \cup {NoSlot}
  BY <1>1 DEF Page
<1>. QED
  BY <1>1, <1>2, OneSlot DEF is_block_cached, contains_block

\* Two cached blocks are in different pages.
LEMMA OnePageEach ==
    ASSUME OneBlockNoEviction, EngineInv,
           NEW x \in Owners, NEW c \in Blocks, is_block_cached(x, c),
           NEW y \in Owners, NEW d \in Blocks, is_block_cached(y, d),
           blocks[x][c] = blocks[y][d]
    PROVE  x = y /\ c = d
<1>. DEFINE p == blocks[x][c]
<1>1. /\ p \in Pages /\ page[p].owner = x /\ contains_block(p, c)
      /\ page[p].owner = y /\ contains_block(p, d)
  BY CachedAt
<1>2. page[p] # ResetPage(NONE)
  BY <1>1, PageCacheAssumption DEF ResetPage
<1>. QED
  BY <1>1, <1>2 DEF EngineInv, PagesHoldOneBlock

\* The store is full exactly when no page is empty: the blocks it holds are
\* as many as the pages in use.
LEMMA HeldFillsPages ==
    ASSUME OneBlockNoEviction, EngineInv, IsFiniteSet(Pages)
    PROVE  /\ IsFiniteSet(held)
           /\ Cardinality(held) <= Cardinality(Pages)
           /\ Cardinality(held) = Cardinality(Pages) <=> ~has_empty_pages
<1>. DEFINE f == [x \in held |-> blocks[x[1]][x[2]]]
<1>1. \A x \in held : /\ x[1] \in Owners /\ x[2] \in Blocks /\ x = <<x[1], x[2]>>
                      /\ is_block_cached(x[1], x[2])
  BY DEF held
<1>2. f \in [held -> Pages]
  BY <1>1, CachedAt
<1>3. \A x, y \in held : f[x] = f[y] => x = y
  BY <1>1, OnePageEach
<1>4. f \in Injection(held, Pages)
  BY <1>2, <1>3 DEF Injection, IsInjective
<1>5. f \in Surjection(held, Pages) <=> ~has_empty_pages
  <2>1. ASSUME ~has_empty_pages, NEW p \in Pages
        PROVE  \E x \in held : f[x] = p
    <3>1. free_pages[p] = 0 /\ page[p].owner # NONE
      BY <2>1 DEF has_empty_pages, EngineInv, FreeXorOwned, TypeOK
    <3>2. page[p].owner \in Owners
      BY <3>1 DEF EngineInv, TypeOK, Page
    <3>3. PICK c \in Blocks : contains_block(p, c)
      BY <3>1 DEF EngineInv, PagesHoldOneBlock, ResetPage
    <3>4. blocks[page[p].owner][c] = p
      BY <3>2, <3>3 DEF EngineInv, TablesAgree
    <3>5. is_block_cached(page[p].owner, c)
      BY <3>3, <3>4, PageCacheAssumption DEF is_block_cached
    <3>6. <<page[p].owner, c>> \in held
      BY <3>2, <3>5 DEF held
    <3>. QED
      BY <3>4, <3>6
  <2>2. ASSUME NEW p \in Pages, free_pages[p] > 0, NEW x \in held
        PROVE  f[x] # p
    <3>1. page[p].owner = NONE
      BY <2>2 DEF EngineInv, FreeXorOwned
    <3>2. page[f[x]].owner \in Owners
      BY <1>1, CachedAt
    <3>. QED
      BY <3>1, <3>2, PageCacheAssumption
  <2>. QED
    BY <1>2, <2>1, <2>2 DEF Surjection, has_empty_pages
<1>. QED
  BY <1>4, <1>5, FS_Injection

-----------------------------------------------------------------------------
(* What a reader sees.                                                     *)

LEMMA ViewIsTyped ==
    ASSUME OneBlockNoEviction, EngineInv, NEW x \in Owners, NEW c \in Blocks
    PROVE  /\ view(x, c) = IF is_block_cached(x, c) THEN page[blocks[x][c]].data[0]
                                                    ELSE disk[x][c]
           /\ view(x, c) \in Values
           /\ disk[x][c] \in Values
<1>1. disk[x][c] \in Values
  BY DEF EngineInv, TypeOK
<1>2. CASE is_block_cached(x, c)
  BY <1>1, <1>2, CachedAt, OneSlot DEF view, Page
<1>3. CASE ~is_block_cached(x, c)
  BY <1>1, <1>3 DEF view
<1>. QED
  BY <1>2, <1>3

\* A step that changes neither what is cached nor what is seen nor the disk.
LEMMA SameStore ==
    ASSUME \A x \in Owners, c \in Blocks :
               /\ is_block_cached(x, c)' <=> is_block_cached(x, c)
               /\ view(x, c)' = view(x, c)
    PROVE  /\ held' = held
           /\ [x \in Owners |-> [c \in Blocks |-> view(x, c)]]' =
                  [x \in Owners |-> [c \in Blocks |-> view(x, c)]]
BY DEF held

-----------------------------------------------------------------------------
(* One lemma per operation.                                                *)

\* The store's capacity counts with the same operator.
LEMMA StoreCardinality ==
    ASSUME NEW S
    PROVE  Store!Cardinality(S) = Cardinality(S)
BY DEF Store!Cardinality, Cardinality

LEMMA InitRefines ==
    ASSUME OneBlockNoEviction, Init
    PROVE  Store!Init
<1>1. \A x \in Owners, c \in Blocks : ~is_block_cached(x, c)
  BY DEF Init, is_block_cached, NoBlocks
<1>2. held = {}
  BY <1>1 DEF held
<1>3. \A x \in Owners, c \in Blocks : view(x, c) = disk[x][c]
  BY <1>1 DEF view
<1>4. disk \in [Owners -> [Blocks -> Values]] /\ reply = Zero
  BY PageCacheAssumption DEF Init
<1>5. [x \in Owners |-> [c \in Blocks |-> view(x, c)]] = disk
  BY <1>3, <1>4
<1>. QED
  BY <1>2, <1>4, <1>5 DEF Store!Init

LEMMA CreateItemRefines ==
    ASSUME NEW o \in Owners, CreateItem(o)
    PROVE  UNCHANGED Store!vars
<1>1. UNCHANGED <<blocks, page, disk, reply>>
  BY DEF CreateItem
<1>2. \A x \in Owners, c \in Blocks :
          /\ is_block_cached(x, c)' <=> is_block_cached(x, c)
          /\ view(x, c)' = view(x, c)
  BY <1>1 DEF is_block_cached, view, contains_block
<1>. QED
  BY <1>1, <1>2, SameStore DEF Store!vars

LEMMA ReadRefines ==
    ASSUME OneBlockNoEviction, EngineInv, NEW o \in Owners, NEW b \in Blocks,
           ReadHit(o, b) \/ ReadMiss(o, b)
    PROVE  Store!Read(o, b)
<1>1. UNCHANGED <<blocks, page, disk>>
  BY DEF ReadHit, ReadMiss, itemVars
<1>2. \A x \in Owners, c \in Blocks :
          /\ is_block_cached(x, c)' <=> is_block_cached(x, c)
          /\ view(x, c)' = view(x, c)
  BY <1>1 DEF is_block_cached, view, contains_block
<1>3. reply' = view(o, b)
  BY CachedAt DEF ReadHit, ReadMiss, view
<1>. QED
  BY <1>1, <1>2, <1>3, SameStore DEF Store!Read

\* The pages of the other cached blocks do not change, nor what is seen of them.
LEMMA WriteRefines ==
    ASSUME OneBlockNoEviction, EngineInv, NEW o \in Owners, NEW b \in Blocks,
           NEW v \in Values,
           is_block_cached(o, b)', view(o, b)' = v,
           \A x \in Owners, c \in Blocks : x # o \/ c # b =>
               /\ is_block_cached(x, c)' <=> is_block_cached(x, c)
               /\ view(x, c)' = view(x, c),
           UNCHANGED <<disk, reply>>,
           ~is_block_cached(o, b) => has_empty_pages,
           IsFiniteSet(Pages)
    PROVE  Store!Write(o, b, v)
<1>. DEFINE volatile == [x \in Owners |-> [c \in Blocks |-> view(x, c)]]
<1>1. held' = held \cup {<<o, b>>}
  <2>1. ASSUME NEW z \in Owners \X Blocks
        PROVE  z \in held' <=> z \in held \cup {<<o, b>>}
    <3>1. z = <<z[1], z[2]>> /\ z[1] \in Owners /\ z[2] \in Blocks
      OBVIOUS
    <3>2. z \in held' <=> is_block_cached(z[1], z[2])'
      BY DEF held
    <3>3. z \in held <=> is_block_cached(z[1], z[2])
      BY DEF held
    <3>4. CASE z[1] = o /\ z[2] = b
      BY <3>1, <3>2, <3>4
    <3>5. CASE z[1] # o \/ z[2] # b
      BY <3>1, <3>2, <3>3, <3>5
    <3>. QED
      BY <3>4, <3>5
  <2>2. held' \subseteq Owners \X Blocks /\ held \cup {<<o, b>>} \subseteq Owners \X Blocks
    BY DEF held
  <2>. QED
    BY <2>1, <2>2
<1>2. volatile' = [volatile EXCEPT ![o][b] = v]
  <2>1. volatile' = [x \in Owners |-> [c \in Blocks |->
                        IF x = o /\ c = b THEN v ELSE view(x, c)]]
    OBVIOUS
  <2>. QED
    BY <2>1
<1>3. <<o, b>> \notin held => Cardinality(held) < Cardinality(Pages)
  <2>1. <<o, b>> \in held <=> is_block_cached(o, b)
    BY DEF held
  <2>2. Cardinality(held) \in Nat /\ Cardinality(Pages) \in Nat
    BY HeldFillsPages, FS_CardinalityType
  <2>. QED
    BY <2>1, <2>2, HeldFillsPages
<1>. QED
  BY <1>1, <1>2, <1>3, StoreCardinality DEF Store!Write

LEMMA PutHitRefines ==
    ASSUME OneBlockNoEviction, EngineInv, IsFiniteSet(Pages),
           NEW o \in Owners, NEW b \in Blocks, NEW v \in Values, PutHit(o, b, v)
    PROVE  Store!Write(o, b, v)
<1>. DEFINE p == blocks[o][b]
<1>1. /\ is_block_cached(o, b)
      /\ p \in Pages /\ page[p] \in Page /\ page[p].owner = o /\ page[p].off[b] = 0
  BY CachedAt DEF PutHit
<1>2. page' = [page EXCEPT ![p] = [page[p] EXCEPT !.dirty = TRUE, !.data[0] = v]]
  BY <1>1 DEF PutHit
<1>3. /\ \A q \in Pages : page'[q].owner = page[q].owner /\ page'[q].off = page[q].off
      /\ \A q \in Pages : q # p => page'[q] = page[q]
      /\ page'[p].data[0] = v
  BY <1>1, <1>2, OneSlot DEF EngineInv, TypeOK, Page
<1>4. blocks' = blocks
  BY DEF PutHit, record_block, EngineInv, TypeOK
<1>5. UNCHANGED <<disk, reply>>
  BY DEF PutHit
<1>6. \A x \in Owners, c \in Blocks : is_block_cached(x, c)' <=> is_block_cached(x, c)
  BY <1>3, <1>4 DEF is_block_cached, contains_block, EngineInv, TypeOK
<1>7. view(o, b)' = v
  BY <1>1, <1>3, <1>4, <1>6 DEF view
<1>8. ASSUME NEW x \in Owners, NEW c \in Blocks, x # o \/ c # b
      PROVE  view(x, c)' = view(x, c)
  <2>1. CASE is_block_cached(x, c)
    <3>1. blocks[x][c] \in Pages /\ blocks[x][c] # p
      BY <1>1, <1>8, <2>1, CachedAt, OnePageEach
    <3>. QED
      BY <1>3, <1>4, <1>6, <2>1, <3>1 DEF view
  <2>2. CASE ~is_block_cached(x, c)
    BY <1>5, <1>6, <2>2 DEF view
  <2>. QED
    BY <2>1, <2>2
<1>. QED
  BY <1>1, <1>5, <1>6, <1>7, <1>8, WriteRefines

\* An empty page: the store has room.
LEMMA PutFreePageRefines ==
    ASSUME OneBlockNoEviction, EngineInv, IsFiniteSet(Pages),
           NEW o \in Owners, NEW b \in Blocks, NEW v \in Values, PutFreePage(o, b, v)
    PROVE  Store!Write(o, b, v)
<1>1. PICK p \in Pages :
          /\ free_pages[p] > 0
          /\ store_block(o, b, v, p, page[p], owner_pages, ordered)
  BY DEF PutFreePage
<1>2. page[p] = ResetPage(NONE)
  <2>1. page[p].owner = NONE
    BY <1>1 DEF EngineInv, FreeXorOwned
  <2>. QED
    BY <2>1, PageCacheAssumption DEF EngineInv, PagesHoldOneBlock, TypeOK
<1>3. page' = [page EXCEPT ![p] =
                  [owner |-> o, dirty |-> TRUE,
                   off   |-> [ResetPage(NONE).off EXCEPT ![b] = 0],
                   free  |-> {}, data |-> [ResetPage(NONE).data EXCEPT ![0] = v]]]
  <2>1. PICK off \in IF page[p].free = {} THEN {NoSlot} ELSE page[p].free :
            LET at   == IF page[p].off[b] = NoSlot THEN off ELSE page[p].off[b]
            IN  page' = [page EXCEPT ![p] =
                    [owner |-> o, dirty |-> TRUE,
                     off   |-> [page[p].off EXCEPT ![b] = at],
                     free  |-> page[p].free \ {off},
                     data  |-> IF at = NoSlot THEN page[p].data
                                              ELSE [page[p].data EXCEPT ![at] = v]]]
    BY <1>1 DEF store_block, free_slots_left
  <2>2. off = 0 /\ page[p].free \ {off} = {} /\ page[p].off[b] = NoSlot /\ NoSlot # 0
    BY <1>2, <2>1, OneSlot DEF ResetPage
  <2>. QED
    BY <1>2, <2>1, <2>2
<1>4. /\ page'[p].owner = o /\ page'[p].off[b] = 0 /\ page'[p].data[0] = v
      /\ \A q \in Pages : q # p => page'[q] = page[q]
  BY <1>3, OneSlot DEF ResetPage, EngineInv, TypeOK
<1>5. /\ \A x \in Owners, c \in Blocks :
            blocks'[x][c] = IF x = o /\ c = b THEN p ELSE blocks[x][c]
      /\ UNCHANGED <<disk, reply>>
  BY <1>1 DEF store_block, record_block, EngineInv, TypeOK
<1>6. is_block_cached(o, b)' /\ view(o, b)' = v
  <2>1. is_block_cached(o, b)'
    BY <1>4, <1>5, OneSlot, PageCacheAssumption DEF is_block_cached, contains_block
  <2>. QED
    BY <1>4, <1>5, <2>1 DEF view
<1>7. ASSUME NEW x \in Owners, NEW c \in Blocks, x # o \/ c # b
      PROVE  /\ is_block_cached(x, c)' <=> is_block_cached(x, c)
             /\ view(x, c)' = view(x, c)
  <2>1. blocks'[x][c] = blocks[x][c]
    BY <1>5, <1>7
  <2>2. CASE is_block_cached(x, c)
    <3>1. blocks[x][c] \in Pages /\ blocks[x][c] # p
      BY <1>2, <2>2, CachedAt, PageCacheAssumption DEF ResetPage
    <3>. QED
      BY <1>4, <2>1, <2>2, <3>1 DEF view, is_block_cached, contains_block
  <2>3. CASE ~is_block_cached(x, c)
    <3>1. ~is_block_cached(x, c)'
      BY <2>1, <2>3, UncachedHasNoPage DEF is_block_cached
    <3>. QED
      BY <1>5, <2>3, <3>1 DEF view
  <2>. QED
    BY <2>2, <2>3
<1>. QED
  BY <1>1, <1>5, <1>6, <1>7, WriteRefines DEF has_empty_pages

\* Both ways past a full cache.
LEMMA WriteBelowRefines ==
    ASSUME OneBlockNoEviction, EngineInv, IsFiniteSet(Pages),
           NEW o \in Owners, NEW b \in Blocks, NEW v \in Values,
           PutFull(o, b, v) \/ WriteThrough(o, b, v)
    PROVE  Store!WriteThrough(o, b, v)
<1>. DEFINE volatile == [x \in Owners |-> [c \in Blocks |-> view(x, c)]]
<1>1. ~is_block_cached(o, b) /\ ~has_empty_pages
  BY DEF PutFull, WriteThrough, cache_full
<1>2. blocks' = blocks
  BY UncachedHasNoPage DEF EngineInv, TypeOK, PutFull, WriteThrough, itemVars
<1>3. page' = page /\ disk' = [disk EXCEPT ![o][b] = v] /\ reply' = reply
  BY DEF PutFull, WriteThrough
<1>4. \A x \in Owners, c \in Blocks : is_block_cached(x, c)' <=> is_block_cached(x, c)
  BY <1>2, <1>3 DEF is_block_cached, contains_block
<1>5. \A x \in Owners, c \in Blocks :
          disk'[x][c] = IF x = o /\ c = b THEN v ELSE disk[x][c]
  BY <1>3 DEF EngineInv, TypeOK
<1>6. \A x \in Owners, c \in Blocks :
          view(x, c)' = IF x = o /\ c = b THEN v ELSE view(x, c)
  BY <1>1, <1>2, <1>3, <1>4, <1>5 DEF view
<1>7. held' = held
  BY <1>4 DEF held
<1>8. volatile' = [volatile EXCEPT ![o][b] = v]
  <2>1. volatile' = [x \in Owners |-> [c \in Blocks |->
                        IF x = o /\ c = b THEN v ELSE view(x, c)]]
    BY <1>6
  <2>. QED
    BY <2>1
<1>9. <<o, b>> \notin held /\ Cardinality(held) = Cardinality(Pages)
  BY <1>1, HeldFillsPages DEF held
<1>. QED
  BY <1>3, <1>7, <1>8, <1>9, StoreCardinality DEF Store!WriteThrough

\* A sync makes durable what a reader sees of the owner's blocks.
LEMMA SyncOwnerRefines ==
    ASSUME OneBlockNoEviction, EngineInv, NEW o \in Owners, SyncOwner(o)
    PROVE  Store!Sync(o)
<1>. DEFINE volatile == [x \in Owners |-> [c \in Blocks |-> view(x, c)]]
            F == flushed_blocks(o)
<1>1. PICK junk \in Values :
          disk' = [disk EXCEPT ![o] = [b \in Blocks |->
                     IF b \notin F THEN disk[o][b]
                     ELSE IF ordered[o][b].off = NoSlot THEN junk
                     ELSE page[ordered[o][b].page].data[ordered[o][b].off]]]
  BY DEF SyncOwner
<1>2. \A c \in Blocks : disk'[o][c] = view(o, c)
  <2>. SUFFICES ASSUME NEW c \in Blocks PROVE disk'[o][c] = view(o, c)
    OBVIOUS
  <2>1. disk'[o][c] = IF c \notin F THEN disk[o][c]
                      ELSE IF ordered[o][c].off = NoSlot THEN junk
                      ELSE page[ordered[o][c].page].data[ordered[o][c].off]
    BY <1>1 DEF EngineInv, TypeOK
  <2>2. CASE c \in F
    <3>1. is_block_cached(o, c)
      BY <2>2, FlushedAreDirty
    <3>2. ordered[o][c].page = blocks[o][c] /\ ordered[o][c].off = 0
      BY <3>1, CachedAt DEF EngineInv, TablesAgree
    <3>. QED
      BY <2>1, <2>2, <3>1, <3>2, CachedAt, OneSlot DEF view
  <2>3. CASE c \notin F
    <3>1. is_block_cached(o, c) => ~page[blocks[o][c]].dirty
      BY <2>3, FlushedAreDirty
    <3>2. view(o, c) = disk[o][c]
      BY <3>1 DEF EngineInv, FlagsAgree, view
    <3>. QED
      BY <2>1, <2>3, <3>2
  <2>. QED
    BY <2>2, <2>3
<1>3. \A x \in Owners, c \in Blocks : x # o => disk'[x][c] = disk[x][c]
  BY <1>1 DEF EngineInv, TypeOK
<1>4. /\ \A q \in Pages : /\ page'[q].owner = page[q].owner
                          /\ page'[q].off = page[q].off
                          /\ page'[q].data = page[q].data
      /\ blocks' = blocks /\ reply' = reply
  <2>1. \A q \in Pages : page[q] \in Page
    BY DEF EngineInv, TypeOK
  <2>2. \A q \in Pages : page'[q] = [page[q] EXCEPT !.dirty = FALSE] \/ page'[q] = page[q]
    BY DEF SyncOwner, synced_page
  <2>3. \A q \in Pages : /\ page'[q].owner = page[q].owner
                         /\ page'[q].off = page[q].off
                         /\ page'[q].data = page[q].data
    BY <2>1, <2>2 DEF Page
  <2>. QED
    BY <2>3 DEF SyncOwner
<1>5. \A x \in Owners, c \in Blocks : is_block_cached(x, c)' <=> is_block_cached(x, c)
  BY <1>4 DEF is_block_cached, contains_block, EngineInv, TypeOK
<1>6. ASSUME NEW x \in Owners, NEW c \in Blocks
      PROVE  view(x, c)' = view(x, c)
  <2>1. CASE is_block_cached(x, c)
    BY <1>4, <1>5, <2>1, CachedAt DEF view
  <2>2. CASE ~is_block_cached(x, c)
    BY <1>2, <1>3, <1>5, <2>2 DEF view
  <2>. QED
    BY <2>1, <2>2
<1>7. held' = held /\ volatile' = volatile
  BY <1>5, <1>6, SameStore
<1>8. disk' = [disk EXCEPT ![o] = volatile[o]]
  <2>1. DOMAIN disk' = Owners /\ disk' = [disk EXCEPT ![o] = disk'[o]]
    BY <1>1 DEF EngineInv, TypeOK
  <2>2. disk'[o] = [c \in Blocks |-> disk'[o][c]]
    BY <1>1 DEF EngineInv, TypeOK
  <2>3. disk'[o] = volatile[o]
    BY <1>2, <2>2
  <2>. QED
    BY <2>1, <2>3
<1>. QED
  BY <1>4, <1>7, <1>8 DEF Store!Sync

\* What the removal of the items in S leaves cached, and what is seen then.
LEMMA RemovedView ==
    ASSUME OneBlockNoEviction, EngineInv, NEW S, S \subseteq Owners,
           remove_cached_blocks(S), delete_items(S),
           NEW x \in Owners, NEW c \in Blocks
    PROVE  /\ is_block_cached(x, c)' <=> x \notin S /\ is_block_cached(x, c)
           /\ view(x, c)' = IF x \notin S /\ is_block_cached(x, c) THEN view(x, c)
                                                                  ELSE disk'[x][c]
<1>1. blocks'[x][c] = IF x \in S THEN NoPage ELSE blocks[x][c]
  BY DEF delete_items, NoBlocks
<1>2. CASE x \notin S /\ is_block_cached(x, c)
  <2>1. page'[blocks[x][c]] = page[blocks[x][c]] /\ blocks'[x][c] = blocks[x][c]
    BY <1>1, <1>2, CachedAt, RemovedPages DEF EngineInv
  <2>. QED
    BY <1>2, <2>1 DEF view, is_block_cached, contains_block
<1>3. CASE ~(x \notin S /\ is_block_cached(x, c))
  <2>1. blocks'[x][c] = NoPage
    BY <1>1, <1>3, UncachedHasNoPage
  <2>. QED
    BY <1>3, <2>1 DEF view, is_block_cached
<1>. QED
  BY <1>2, <1>3

LEMMA RemoveItemRefines ==
    ASSUME OneBlockNoEviction, EngineInv, NEW o \in Owners, RemoveItem(o)
    PROVE  Store!Delete(o)
<1>. DEFINE volatile == [x \in Owners |-> [c \in Blocks |-> view(x, c)]]
<1>1. /\ remove_cached_blocks({o}) /\ delete_items({o}) /\ {o} \subseteq Owners
      /\ disk' = [disk EXCEPT ![o] = [b \in Blocks |-> Zero]]
      /\ reply' = reply
  BY DEF RemoveItem
<1>2. \A x \in Owners, c \in Blocks :
          disk'[x][c] = IF x = o THEN Zero ELSE disk[x][c]
  BY <1>1 DEF EngineInv, TypeOK
<1>3. \A x \in Owners, c \in Blocks :
          /\ is_block_cached(x, c)' <=> x # o /\ is_block_cached(x, c)
          /\ view(x, c)' = IF x # o /\ is_block_cached(x, c) THEN view(x, c)
                                                            ELSE disk'[x][c]
  BY <1>1, RemovedView
<1>4. \A x \in Owners, c \in Blocks :
          view(x, c)' = IF x = o THEN Zero ELSE view(x, c)
  BY <1>2, <1>3 DEF view
<1>5. held' = held \ ({o} \X Blocks)
  BY <1>3 DEF held
<1>6. volatile' = [volatile EXCEPT ![o] = [b \in Blocks |-> Zero]]
  <2>1. volatile' = [x \in Owners |-> [c \in Blocks |-> IF x = o THEN Zero ELSE view(x, c)]]
    BY <1>4
  <2>. QED
    BY <2>1
<1>. QED
  BY <1>1, <1>5, <1>6 DEF Store!Delete

\* A clear of the cache drops everything the store holds.
LEMMA ClearAllRefines ==
    ASSUME OneBlockNoEviction, EngineInv, ClearAll
    PROVE  Store!Discard(held)
<1>. DEFINE volatile == [x \in Owners |-> [c \in Blocks |-> view(x, c)]]
<1>1. /\ remove_cached_blocks(contents) /\ delete_items(contents)
      /\ contents \subseteq Owners /\ disk' = disk /\ reply' = reply
  BY DEF ClearAll, EngineInv, TypeOK
<1>2. \A x \in Owners, c \in Blocks : is_block_cached(x, c) => x \in contents
  BY DEF EngineInv, OwnersHaveItems, is_block_cached, NoBlocks
<1>3. \A x \in Owners, c \in Blocks :
          ~is_block_cached(x, c)' /\ view(x, c)' = disk[x][c]
  BY <1>1, <1>2, RemovedView
<1>4. held' = held \ held
  BY <1>3 DEF held
<1>5. \A x \in Owners, c \in Blocks : <<x, c>> \notin held => view(x, c) = disk[x][c]
  BY DEF held, view
<1>6. volatile' = [x \in Owners |-> [c \in Blocks |->
                      IF <<x, c>> \in held THEN disk[x][c] ELSE volatile[x][c]]]
  BY <1>3, <1>5
<1>. QED
  BY <1>1, <1>4, <1>6 DEF Store!Discard

-----------------------------------------------------------------------------

\* Every step of the engine is a step of the store or leaves it unchanged.
LEMMA StepRefines ==
    ASSUME OneBlockNoEviction, IsFiniteSet(Pages), EngineInv, [Next]_vars
    PROVE  [Store!Next]_(Store!vars)
<1>1. ASSUME NEW o \in Owners, NEW b \in Blocks, NEW v \in Values, Put(o, b, v)
      PROVE  Store!Next
  BY <1>1, Disabled, PutHitRefines, PutFreePageRefines, WriteBelowRefines DEF Put, Store!Next
<1>2. ASSUME NEW o \in Owners, NEW b \in Blocks,
             ReadHit(o, b) \/ ReadMiss(o, b) \/ GetStale(o, b)
      PROVE  Store!Next
  BY <1>2, Disabled, ReadRefines DEF Store!Next
<1>3. ASSUME NEW o \in Owners, CreateItem(o)
      PROVE  UNCHANGED Store!vars
  BY <1>3, CreateItemRefines
<1>4. ASSUME NEW o \in Owners, SyncOwner(o) \/ RemoveItem(o)
      PROVE  Store!Next
  BY <1>4, SyncOwnerRefines, RemoveItemRefines DEF Store!Next
<1>5. ASSUME ClearAll
      PROVE  Store!Next
  BY <1>5, ClearAllRefines DEF Store!Next
<1>6. CASE UNCHANGED vars
  <2>1. /\ UNCHANGED <<disk, reply>>
        /\ \A x \in Owners, c \in Blocks :
              /\ is_block_cached(x, c)' <=> is_block_cached(x, c)
              /\ view(x, c)' = view(x, c)
    BY <1>6 DEF vars, is_block_cached, view, contains_block
  <2>. QED
    BY <2>1, SameStore DEF Store!vars
<1>. QED
  BY <1>1, <1>2, <1>3, <1>4, <1>5, <1>6 DEF Next

\* The page cache is a bounded store in front of the file system below: what is
\* read is what was written last, a sync makes the owner's content durable and
\* nothing else does, and a write goes past the cache only when it is full.
THEOREM PageCacheImplementsStore ==
    ASSUME OneBlockNoEviction, IsFiniteSet(Pages)
    PROVE  Spec => StoreSpec
<1>1. Init => Store!Init
  BY InitRefines
<1>2. EngineInv /\ [Next]_vars => [Store!Next]_(Store!vars)
  BY StepRefines
<1>3. Spec => []EngineInv
  BY EngineInvariant
<1>. QED
  BY <1>1, <1>2, <1>3, PTL DEF Spec, StoreSpec, Store!Spec

=============================================================================
