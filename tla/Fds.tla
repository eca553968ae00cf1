-------------------------------- MODULE Fds --------------------------------
(***************************************************************************)
(* Flash data storage (fds.c), on which the peer manager keeps the bonds:  *)
(* a log of records in DataPages pages plus one swap page, written word    *)
(* group by word group through fstorage, with an operation queue, updates, *)
(* deletion of records and files, garbage collection into the swap page    *)
(* and the installation that a boot runs on whatever it finds.  Power may  *)
(* go at any moment, inside a flash operation too.                         *)
(*                                                                         *)
(* A record takes one slot of a page whatever its length.  The words of a  *)
(* record are kept as four groups, in the order of their addresses: key    *)
(* and length, file id and CRC, record id, data.  The data of a record is  *)
(* the number of the request that wrote it, so no two requests store the   *)
(* same data.                                                              *)
(***************************************************************************)
EXTENDS Integers, Sequences, FiniteSets, FiniteSetsExt, SequencesExt

CONSTANTS
    DataPages,      \* FDS_DATA_PAGES: pages that hold records, one less than all
    Slots,          \* records that fit on a page
    QueueSize,      \* FDS_OP_QUEUE_SIZE
    Files,          \* file ids in use
    Keys,           \* record keys in use
    MaxWrites,      \* bound: write and update requests
    MaxFaults,      \* bound: power cuts and flash operations given up on, together
    Readers         \* whether a client keeps records open between its calls

ASSUME ConstantsAssumption ==
    /\ DataPages \in Nat \ {0} /\ Slots \in Nat \ {0} /\ QueueSize \in Nat \ {0}
    /\ MaxWrites \in Nat /\ MaxFaults \in Nat
    /\ Files \subseteq Nat \ {0} /\ Readers \in BOOLEAN
    /\ Keys \intersect {"none", "dirty", "spoiled"} = {}

VARIABLES
    flash,      \* the pages of the flash area
    flashing,   \* the flash operation fstorage is executing, if any
    pages,      \* m_pages: the data pages as RAM knows them
    swap,       \* m_swap_page
    gc,         \* m_gc
    phase,      \* m_flags: off, installing, initialized, or given up
    queue,      \* m_queue; the head is the operation being executed
    hand,       \* where the handler that runs queue_process is
    result,     \* what it goes on with, or tells the users
    latest,     \* m_latest_rec_id
    tok,        \* the static search token of file_find_and_delete
    old,        \* where the record an update replaces lies (static desc and page)
    opened,     \* the descriptor of the record the client has open
    writes, cuts, timeouts      \* counters for the bounds

ram == <<pages, swap, gc, phase, queue, latest, tok, old, opened>>
bounds == <<writes, cuts, timeouts>>
vars == <<flash, flashing, ram, hand, result, bounds>>
-----------------------------------------------------------------------------
(* Flash: pages, slots and the words of a slot. *)

Phys == 0 .. DataPages
NoPage == -1
Index == 1 .. DataPages

NoFile == 0
Empty == [key |-> "none", file |-> NoFile, id |-> 0, data |-> 0]
Blank == [tag |-> "none", slot |-> [i \in 1 .. Slots |-> Empty]]

(* A word of flash can be programmed once; a second value spoils it, except *)
(* for the two overwrites the code relies on: clearing a key, and turning   *)
(* the tag of a swap page into that of a data page.                         *)
Program(word, erased, value) ==
    IF word \in {erased, value} THEN value
    ELSE IF value \in {"dirty", "data"} THEN value ELSE "spoiled"
ProgramId(word, value) == IF word \in {0, value} THEN value ELSE -1
WithKey(p, i, k) == [p EXCEPT !.slot[i].key = Program(@, "none", k)]
WithFile(p, i, f) == [p EXCEPT !.slot[i].file = ProgramId(@, f)]
WithId(p, i, n) == [p EXCEPT !.slot[i].id = ProgramId(@, n)]
WithData(p, i, d) == [p EXCEPT !.slot[i].data = ProgramId(@, d)]

(* Writing a tag: the magic word, then the word that says which. *)
TagStages(p, t) == <<IF p.tag = "none" THEN [p EXCEPT !.tag = "magic"] ELSE p,
                     [p EXCEPT !.tag = Program(@, IF @ = "magic" THEN @ ELSE "none", t)]>>

(* header_check *)
Valid(c) == c.key \notin {"none", "dirty"} /\ c.file # NoFile /\ c.id # 0
(* page_scan: the first slot whose header is erased *)
WriteOffset(p) == Min({i \in 1 .. Slots : p.slot[i].key = "none"} \union {Slots + 1})
Records(p) == {i \in 1 .. WriteOffset(p) - 1 : Valid(p.slot[i])}
PageIdentify(p) == IF p.tag \in {"data", "swap"} THEN p.tag ELSE "undefined"
PageCanTag(p) == p.tag \in {"none", "magic"} /\ p.slot = Blank.slot

(* record_find_next: the next valid record of a page after slot i, 0 if none *)
FindNext(addr, i) ==
    LET S == {j \in Records(flash[addr]) : j > i} IN IF S = {} THEN 0 ELSE Min(S)

(* Where the reading side finds a record: <<index of the page, slot>>. *)
Found == {loc \in Index \X (1 .. Slots) :
            /\ phase = "initialized" /\ pages[loc[1]].type = "data"
            /\ loc[2] \in Records(flash[pages[loc[1]].addr])}
RecordAt(loc) == flash[pages[loc[1]].addr].slot[loc[2]]
(* the first in the order of the search *)
First(S) == CHOOSE a \in S : \A b \in S : a[1] < b[1] \/ (a[1] = b[1] /\ a[2] <= b[2])
FindById(id) == {loc \in Found : RecordAt(loc).id = id}
-----------------------------------------------------------------------------
(* pages_init: what a boot makes of the pages it finds, in their order. *)

NewPage == [type |-> "data", addr |-> NoPage, offset |-> 0,
            reserved |-> 0, open |-> 0, canGc |-> FALSE]

ScanStart == [pages |-> [i \in Index |-> NewPage], next |-> 1, swap |-> NoPage, offset |-> 0,
              provisional |-> FALSE, cur |-> 1, latest |-> 0, seen |-> {}]

Erased(addr) == [NewPage EXCEPT !.type = "erased", !.addr = addr, !.offset = 1]
AddErased(s, addr) ==
    [s EXCEPT !.pages[s.next] = Erased(addr), !.cur = s.next, !.next = @ + 1]

\* Mutant: ids are counted from the start again after a boot.
LatestId_FromStart(s, p) == s.latest

(* page_scan: the highest record id so far *)
LatestId(s, p) == Max({p.slot[i].id : i \in Records(p)} \union {s.latest})

ScanPage(s, addr) ==
    LET p == flash[addr]
        t == IF s.provisional THEN AddErased(s, s.swap) ELSE s
    IN CASE PageIdentify(p) = "undefined" /\ PageCanTag(p) /\ s.swap # NoPage ->
               [AddErased(s, addr) EXCEPT !.seen = @ \union {"erased"}]
         [] PageIdentify(p) = "undefined" /\ PageCanTag(p) /\ s.swap = NoPage ->
               [s EXCEPT !.swap = addr, !.offset = 1, !.provisional = TRUE,
                         !.seen = @ \union {"erased"}]
         [] PageIdentify(p) = "undefined" /\ ~ PageCanTag(p) ->
               [s EXCEPT !.pages[s.next] = [NewPage EXCEPT !.type = "undefined", !.addr = addr],
                         !.next = @ + 1]
         [] PageIdentify(p) = "data" ->
               [s EXCEPT !.pages[s.next] = [NewPage EXCEPT
                             !.addr = addr, !.offset = WriteOffset(p),
                             !.canGc = \E i \in 1 .. WriteOffset(p) - 1 : ~ Valid(p.slot[i])],
                         !.next = @ + 1, !.latest = LatestId(s, p), !.seen = @ \union {"data"}]
         [] OTHER ->
               [t EXCEPT !.swap = addr, !.offset = WriteOffset(p), !.latest = LatestId(s, p),
                         !.seen = @ \union {IF WriteOffset(p) = 1 THEN "clean" ELSE "dirty"}]

(* the pages below n have been scanned *)
Scan[n \in 0 .. DataPages + 1] == IF n = 0 THEN ScanStart ELSE ScanPage(Scan[n - 1], n - 1)
PagesInit == Scan[DataPages + 1]
(* no pages, unless two are left for data and swap *)
Seen == IF Cardinality({i \in Index : PagesInit.pages[i].type = "undefined"}) >= DataPages
        THEN {} ELSE PagesInit.seen

\* Mutant: a swap page with records in it is taken for a leftover.
InitStep_DropsSwap(seen) ==
    CASE seen \in {{}, {"data"}} -> "fail"
      [] seen = {"data", "clean"} -> "none"
      [] seen = {"data", "dirty"} \/ seen \ {"data"} = {"erased", "dirty"} -> "erase swap"
      [] seen \ {"data"} = {"erased", "clean"} -> "tag data"
      [] OTHER -> "tag swap"

(* The first step of the installation for what was seen; what is not among  *)
(* fds_init_opts_t gets the step that cleared memory stands for.            *)
InitStep(seen) ==
    CASE seen \in {{}, {"data"}} -> "fail"
      [] seen = {"data", "clean"} -> "none"
      [] seen = {"data", "dirty"} -> "erase swap"
      [] seen \ {"data"} = {"erased", "clean"} -> "tag data"
      [] seen \ {"data"} = {"erased", "dirty"} -> "promote swap"
      [] OTHER -> "tag swap"
-----------------------------------------------------------------------------
(* The queue of operations and the handler that executes it.  queue_process *)
(* runs when the queue gets its first operation and when a flash operation  *)
(* ends: it executes one step of the head, then either waits for the flash  *)
(* or tells the users, frees the element and goes on with the next one.     *)

NoPages == [i \in Index |-> NewPage]
NoSwap == [addr |-> NoPage, offset |-> 0]
NoOld == [addr |-> NoPage, slot |-> 0, page |-> 0]
NoDesc == [id |-> 0, addr |-> NoPage, slot |-> 0, page |-> 0, moved |-> FALSE]
NoFlash == [addr |-> NoPage, stages |-> <<>>]
GcIdle == [state |-> "begin", cur |-> 1, src |-> 0, todo |-> {}, resume |-> FALSE]

NewOp == [code |-> "gc", step |-> "none", page |-> 0, id |-> 0, data |-> 0,
          file |-> NoFile, key |-> "none", target |-> 0]
Op == Head(queue)
SetStep(st) == queue' = [queue EXCEPT ![1].step = st]

(* The operation asked fstorage for one flash operation and waits for it. *)
Execute(addr, stages) ==
    /\ flashing' = [addr |-> addr, stages |-> stages]
    /\ hand' = "idle"
    /\ UNCHANGED result

Finish(r) ==
    /\ hand' = "event"
    /\ result' = r
    /\ UNCHANGED flashing

Ready(code) == hand = "run" /\ Op.code = code
Proceeds == result = "success"

(* FDS_OP_INIT *)
InitTimeout ==
    /\ Ready("init") /\ ~ Proceeds
    /\ phase' = "failed"
    /\ Finish("timeout")
    /\ UNCHANGED <<flash, pages, swap, gc, queue, latest, tok, old, opened, bounds>>

\* Mutant: the step is not moved on.
InitTagSwap_Again ==
    /\ Ready("init") /\ Proceeds /\ Op.step = "tag swap"
    /\ Execute(swap.addr, TagStages(flash[swap.addr], "swap"))
    /\ UNCHANGED <<flash, ram, bounds>>

InitTagSwap ==
    /\ Ready("init") /\ Proceeds /\ Op.step = "tag swap"
    /\ SetStep("tag data")
    /\ Execute(swap.addr, TagStages(flash[swap.addr], "swap"))
    /\ UNCHANGED <<flash, pages, swap, gc, phase, latest, tok, old, opened, bounds>>

InitTagData ==
    /\ Ready("init") /\ Proceeds /\ Op.step = "tag data"
    /\ LET E == {i \in Index : pages[i].type = "erased"}
       IN IF E = {}
          THEN /\ phase' = "initialized"
               /\ Finish("success")
               /\ UNCHANGED pages
          ELSE /\ pages' = [pages EXCEPT ![Min(E)].type = "data"]
               /\ Execute(pages[Min(E)].addr, TagStages(flash[pages[Min(E)].addr], "data"))
               /\ UNCHANGED phase
    /\ UNCHANGED <<flash, swap, gc, queue, latest, tok, old, opened, bounds>>

InitEraseSwap ==
    /\ Ready("init") /\ Proceeds /\ Op.step = "erase swap"
    /\ SetStep("tag swap")
    /\ swap' = [swap EXCEPT !.offset = 1]
    /\ Execute(swap.addr, <<Blank>>)
    /\ UNCHANGED <<flash, pages, gc, phase, latest, tok, old, opened, bounds>>

\* Mutant: the page in RAM keeps its address.
InitPromoteSwap_KeepsPage ==
    /\ Ready("init") /\ Proceeds /\ Op.step = "promote swap"
    /\ SetStep("tag swap")
    /\ swap' = [addr |-> pages[gc.cur].addr, offset |-> 1]
    /\ pages' = [pages EXCEPT ![gc.cur].offset = swap.offset, ![gc.cur].type = "data"]
    /\ Execute(swap.addr, TagStages(flash[swap.addr], "data"))
    /\ UNCHANGED <<flash, gc, phase, latest, tok, old, opened, bounds>>

InitPromoteSwap ==
    /\ Ready("init") /\ Proceeds /\ Op.step = "promote swap"
    /\ SetStep("tag swap")
    /\ swap' = [addr |-> pages[gc.cur].addr, offset |-> 1]
    /\ pages' = [pages EXCEPT ![gc.cur].addr = swap.addr, ![gc.cur].offset = swap.offset,
                              ![gc.cur].type = "data"]
    /\ Execute(swap.addr, TagStages(flash[swap.addr], "data"))
    /\ UNCHANGED <<flash, gc, phase, latest, tok, old, opened, bounds>>

(* FDS_OP_WRITE and FDS_OP_UPDATE.  page_offsets_update compares steps by    *)
(* their place in the enumeration fds_write_step_t, in which                 *)
(* FDS_OP_WRITE_HEADER_FINALIZE comes before FDS_OP_WRITE_RECORD_ID.         *)
StepNumber == [begin |-> 0, finalize |-> 1, id |-> 2, data |-> 3, find |-> 4,
               flag |-> 5, done |-> 6]
\* Mutant: the space of a record is not counted as used.
OffsetsUpdated_NoAdvance(op) == [pages EXCEPT ![op.page].reserved = @ - 1]

OffsetsUpdated(op) ==
    [pages EXCEPT ![op.page].offset = IF StepNumber[op.step] > StepNumber.id THEN @ + 1 ELSE @,
                  ![op.page].reserved = @ - 1]

IsWrite == hand = "run" /\ Op.code \in {"write", "update"}
WriteAddr == pages[Op.page].addr
WriteSlot == pages[Op.page].offset
WriteWords(page) == Execute(WriteAddr, <<page>>)

WriteTimeout ==
    /\ IsWrite /\ ~ Proceeds
    /\ pages' = OffsetsUpdated(Op)
    /\ Finish("timeout")
    /\ UNCHANGED <<flash, swap, gc, phase, queue, latest, tok, old, opened, bounds>>

(* The old copy of an update is looked up first: with none the update ends  *)
(* here, without page_offsets_update.                                       *)
UpdateFindsNothing ==
    /\ IsWrite /\ Proceeds /\ Op.step = "find" /\ FindById(Op.target) = {}
    /\ Finish("not found")
    /\ UNCHANGED <<flash, ram, bounds>>

WriteHeaderBegin ==
    /\ IsWrite /\ Proceeds
    /\ \/ Op.step = "begin" /\ UNCHANGED old
       \/ /\ Op.step = "find" /\ FindById(Op.target) # {}
          /\ LET loc == First(FindById(Op.target))
             IN old' = [addr |-> pages[loc[1]].addr, slot |-> loc[2], page |-> loc[1]]
    /\ SetStep("id")
    /\ WriteWords(WithKey(flash[WriteAddr], WriteSlot, Op.key))
    /\ UNCHANGED <<flash, pages, swap, gc, phase, latest, tok, opened, bounds>>

WriteRecordId ==
    /\ IsWrite /\ Proceeds /\ Op.step = "id"
    /\ SetStep("data")
    /\ WriteWords(WithId(flash[WriteAddr], WriteSlot, Op.id))
    /\ UNCHANGED <<flash, pages, swap, gc, phase, latest, tok, old, opened, bounds>>

WriteData ==
    /\ IsWrite /\ Proceeds /\ Op.step = "data"
    /\ SetStep("finalize")
    /\ WriteWords(WithData(flash[WriteAddr], WriteSlot, Op.data))
    /\ UNCHANGED <<flash, pages, swap, gc, phase, latest, tok, old, opened, bounds>>

\* Mutant: the old copy is flagged before the new header is complete.
WriteHeaderFinalize_FlagsOld ==
    /\ IsWrite /\ Proceeds /\ Op.step = "finalize"
    /\ IF Op.code = "update" /\ old # NoOld
       THEN /\ UNCHANGED queue
            /\ old' = NoOld
            /\ Execute(old.addr, <<WithKey(flash[old.addr], old.slot, "dirty")>>)
       ELSE /\ SetStep("done")
            /\ UNCHANGED old
            /\ WriteWords(WithFile(flash[WriteAddr], WriteSlot, Op.file))
    /\ UNCHANGED <<flash, pages, swap, gc, phase, latest, tok, opened, bounds>>

WriteHeaderFinalize ==
    /\ IsWrite /\ Proceeds /\ Op.step = "finalize"
    /\ SetStep(IF Op.code = "update" THEN "flag" ELSE "done")
    /\ WriteWords(WithFile(flash[WriteAddr], WriteSlot, Op.file))
    /\ UNCHANGED <<flash, pages, swap, gc, phase, latest, tok, old, opened, bounds>>

(* record_header_flag_dirty *)
FlagDirty(addr, slot, page) ==
    /\ pages' = [pages EXCEPT ![page].canGc = TRUE]
    /\ Execute(addr, <<WithKey(flash[addr], slot, "dirty")>>)

WriteFlagDirty ==
    /\ IsWrite /\ Proceeds /\ Op.step = "flag"
    /\ SetStep("done")
    /\ FlagDirty(old.addr, old.slot, old.page)
    /\ UNCHANGED <<flash, swap, gc, phase, latest, tok, old, opened, bounds>>

WriteDone ==
    /\ IsWrite /\ Proceeds /\ Op.step = "done"
    /\ pages' = OffsetsUpdated(Op)
    /\ Finish("success")
    /\ UNCHANGED <<flash, swap, gc, phase, queue, latest, tok, old, opened, bounds>>

(* FDS_OP_DEL_RECORD and FDS_OP_DEL_FILE *)
IsDelete == hand = "run" /\ Op.code \in {"delete", "delete file"}

DeleteTimeout ==
    /\ IsDelete /\ ~ Proceeds
    /\ Finish("timeout")
    /\ UNCHANGED <<flash, ram, bounds>>

DeleteRecord ==
    /\ IsDelete /\ Proceeds /\ Op.step = "flag" /\ Op.code = "delete"
    /\ IF FindById(Op.target) = {}
       THEN /\ SetStep("done")
            /\ Finish("not found")
            /\ UNCHANGED pages
       ELSE LET loc == First(FindById(Op.target))
            IN /\ queue' = [queue EXCEPT ![1].step = "done", ![1].file = RecordAt(loc).file]
               /\ FlagDirty(pages[loc[1]].addr, loc[2], loc[1])
    /\ UNCHANGED <<flash, swap, gc, phase, latest, tok, old, opened, bounds>>

DeleteDone ==
    /\ IsDelete /\ Proceeds /\ Op.step = "done"
    /\ Finish("success")
    /\ UNCHANGED <<flash, ram, bounds>>

(* Where the static token lets the search of a file go on: behind it on its *)
(* own page, from the start on later ones.  A token that points into a page *)
(* collected since goes on in the old page, or nowhere if that lies higher. *)
TokStart == [page |-> 1, addr |-> NoPage, slot |-> 0]
AfterTok(i) ==
    IF i = tok.page /\ tok.slot # 0
    THEN {<<i, tok.addr, j>> : j \in {k \in Records(flash[tok.addr]) :
                                        k > tok.slot /\ tok.addr <= pages[i].addr}}
    ELSE {<<i, pages[i].addr, j>> : j \in Records(flash[pages[i].addr])}
FileRecords(f) ==
    {t \in UNION {AfterTok(i) : i \in {k \in tok.page .. DataPages : pages[k].type = "data"}} :
        flash[t[2]].slot[t[3]].file = f}

DeleteFile ==
    /\ IsDelete /\ Proceeds /\ Op.step = "flag" /\ Op.code = "delete file"
    /\ IF FileRecords(Op.file) = {}
       THEN /\ tok' = TokStart
            /\ Finish("success")
            /\ UNCHANGED pages
       ELSE LET t == CHOOSE a \in FileRecords(Op.file) : \A b \in FileRecords(Op.file) :
                        a[1] < b[1] \/ (a[1] = b[1] /\ a[3] <= b[3])
            IN /\ tok' = [page |-> t[1], addr |-> t[2], slot |-> t[3]]
               /\ FlagDirty(t[2], t[3], t[1])
    /\ UNCHANGED <<flash, swap, gc, phase, queue, latest, old, opened, bounds>>
-----------------------------------------------------------------------------
(* FDS_OP_GC: every page with removed records and no open one is copied to  *)
(* the swap page record by record and erased; then the two change roles.    *)

CopyStages(p, i, c) ==
    LET a == WithKey(p, i, c.key)
        b == WithFile(a, i, c.file)
        d == WithId(b, i, c.id)
    IN <<a, b, d, WithData(d, i, c.data)>>

(* gc_record_copy *)
CopyRecord(g, slot, offset) ==
    /\ gc' = [g EXCEPT !.state = "copy", !.src = slot]
    /\ swap' = [swap EXCEPT !.offset = offset]
    /\ Execute(swap.addr, CopyStages(flash[swap.addr], offset,
                                     flash[pages[g.cur].addr].slot[slot]))

(* gc_page_erase: a record opened meanwhile makes it give up the copy. *)
ErasePage(g, offset) ==
    IF pages[g.cur].open = 0
    THEN /\ gc' = [g EXCEPT !.state = "erase"]
         /\ swap' = [swap EXCEPT !.offset = offset]
         /\ Execute(pages[g.cur].addr, <<Blank>>)
    ELSE /\ gc' = [g EXCEPT !.state = "discard"]
         /\ swap' = [swap EXCEPT !.offset = 1]
         /\ Execute(swap.addr, <<Blank>>)

(* gc_record_find_next *)
FindRecord(g, offset) ==
    LET n == FindNext(pages[g.cur].addr, g.src)
    IN IF n # 0 THEN CopyRecord(g, n, offset) ELSE ErasePage(g, offset)

(* gc_page_next and gc_next_page: the pages looked at on the way are not    *)
(* looked at again in this run.                                             *)
NextPage(g) ==
    LET C == {i \in g.todo : pages[i].open = 0 /\ pages[i].canGc}
    IN IF C = {}
       THEN /\ gc' = [GcIdle EXCEPT !.resume = g.resume]
            /\ Finish("success")
            /\ UNCHANGED swap
       ELSE FindRecord([g EXCEPT !.cur = Min(C), !.todo = {i \in @ : i > Min(C)}], swap.offset)

(* gc_execute: a step that is not resumed advances the state first. *)
GcStep(from) == Ready("gc") /\ Proceeds /\ gc.state \in from /\ ~ gc.resume
GcAgain(in) == Ready("gc") /\ Proceeds /\ gc.state = in /\ gc.resume
Resumed == [gc EXCEPT !.resume = FALSE]

GcTimeout ==
    /\ Ready("gc") /\ ~ Proceeds
    /\ Finish("timeout")
    /\ UNCHANGED <<flash, ram, bounds>>

GcBegin ==
    /\ GcStep({"begin"})
    /\ NextPage([gc EXCEPT !.cur = 1, !.todo = {i \in Index : pages[i].type = "data"}])
    /\ opened' = IF opened = NoDesc THEN opened ELSE [opened EXCEPT !.moved = TRUE]
    /\ UNCHANGED <<flash, pages, phase, queue, latest, tok, old, bounds>>

GcNextPage ==
    /\ GcStep({"tag"})
    /\ NextPage(gc)
    /\ UNCHANGED <<flash, pages, phase, queue, latest, tok, old, opened, bounds>>

GcFindNext ==
    /\ GcStep({"copy"})
    /\ FindRecord(gc, swap.offset + 1)
    /\ UNCHANGED <<flash, pages, phase, queue, latest, tok, old, opened, bounds>>

GcCopyAgain ==
    /\ GcAgain("copy")
    /\ CopyRecord(Resumed, gc.src, swap.offset)
    /\ UNCHANGED <<flash, pages, phase, queue, latest, tok, old, opened, bounds>>

GcEraseAgain ==
    /\ GcAgain("erase")
    /\ ErasePage(Resumed, swap.offset)
    /\ UNCHANGED <<flash, pages, phase, queue, latest, tok, old, opened, bounds>>

(* gc_swap_pages and gc_swap_promote *)
GcPromote ==
    /\ \/ /\ GcStep({"erase"})
          /\ swap' = [addr |-> pages[gc.cur].addr, offset |-> 1]
          /\ pages' = [pages EXCEPT ![gc.cur].addr = swap.addr,
                                    ![gc.cur].offset = swap.offset, ![gc.cur].canGc = FALSE]
       \/ GcAgain("promote") /\ UNCHANGED <<swap, pages>>
    /\ gc' = [Resumed EXCEPT !.state = "promote"]
    /\ Execute(pages'[gc.cur].addr, TagStages(flash[pages'[gc.cur].addr], "data"))
    /\ UNCHANGED <<flash, phase, queue, latest, tok, old, opened, bounds>>

GcTagSwap ==
    /\ GcStep({"promote", "discard"}) \/ GcAgain("tag")
    /\ gc' = [Resumed EXCEPT !.state = "tag", !.src = 0]
    /\ Execute(swap.addr, TagStages(flash[swap.addr], "swap"))
    /\ UNCHANGED <<flash, pages, swap, phase, queue, latest, tok, old, opened, bounds>>

(* gc_execute has no case for GC_DISCARD_SWAP. *)
GcDiscardAgain ==
    /\ GcAgain("discard")
    /\ gc' = Resumed
    /\ Finish("internal")
    /\ UNCHANGED <<flash, pages, swap, phase, queue, latest, tok, old, opened, bounds>>
-----------------------------------------------------------------------------
(* The flash below and the loop of queue_process. *)

FlashDone ==
    /\ flashing # NoFlash
    /\ flash' = [flash EXCEPT ![flashing.addr] = Last(flashing.stages)]
    /\ flashing' = NoFlash
    /\ hand' = "run" /\ result' = "success"
    /\ UNCHANGED <<ram, bounds>>

(* fstorage gives up after its retries; nothing was written. *)
FlashTimeout ==
    /\ flashing # NoFlash /\ cuts + timeouts < MaxFaults
    /\ timeouts' = timeouts + 1
    /\ flashing' = NoFlash
    /\ hand' = "run" /\ result' = "timeout"
    /\ UNCHANGED <<flash, ram, writes, cuts>>

QueueNext ==
    /\ hand = "event"
    /\ queue' = Tail(queue)
    /\ hand' = IF Len(queue) > 1 THEN "run" ELSE "idle"
    /\ result' = "success"
    /\ UNCHANGED <<flash, flashing, pages, swap, gc, phase, latest, tok, old, opened, bounds>>

PowerCut ==
    /\ phase # "off" /\ cuts + timeouts < MaxFaults
    /\ cuts' = cuts + 1
    /\ \/ UNCHANGED flash
       \/ \E k \in 1 .. Len(flashing.stages) :
            flash' = [flash EXCEPT ![flashing.addr] = flashing.stages[k]]
    /\ pages' = NoPages /\ swap' = NoSwap /\ gc' = GcIdle /\ phase' = "off" /\ queue' = <<>>
    /\ latest' = 0 /\ tok' = TokStart /\ old' = NoOld /\ opened' = NoDesc
    /\ flashing' = NoFlash /\ hand' = "idle" /\ result' = "success"
    /\ UNCHANGED <<writes, timeouts>>

(* fds_init *)
Boot ==
    /\ phase = "off"
    /\ pages' = PagesInit.pages /\ latest' = PagesInit.latest
    /\ swap' = [addr |-> PagesInit.swap, offset |-> PagesInit.offset]
    /\ gc' = [gc EXCEPT !.cur = PagesInit.cur]
    /\ LET step == InitStep(Seen)
       IN /\ phase' = CASE step = "none" -> "initialized"
                        [] step = "fail" -> "failed"
                        [] OTHER -> "installing"
          /\ IF step \in {"none", "fail"} THEN UNCHANGED <<queue, hand>>
             ELSE queue' = <<[NewOp EXCEPT !.code = "init", !.step = step]>> /\ hand' = "run"
    /\ UNCHANGED <<flash, flashing, result, tok, old, opened, bounds>>
-----------------------------------------------------------------------------
(* The calls of a client, from its own context or from its event handler.   *)
(* With the queue full queue_buf_get clears memory at NULL before it looks  *)
(* at the pointer, which ends in a fault: no later than PowerCut allows.    *)

CanCall == phase = "initialized" /\ hand \in {"idle", "event"} /\ Len(queue) < QueueSize

(* queue_buf_store and queue_start *)
Enqueue(op) ==
    /\ queue' = Append(queue, op)
    /\ IF queue = <<>> THEN hand' = "run" /\ result' = "success" ELSE UNCHANGED <<hand, result>>

(* write_space_reserve *)
HasSpace == {i \in Index : /\ pages[i].type = "data"
                           /\ pages[i].offset + pages[i].reserved <= Slots}

(* write_enqueue *)
WriteEnqueue(op) ==
    /\ CanCall /\ HasSpace # {}
    /\ writes' = writes + 1
    /\ latest' = latest + 1
    /\ pages' = [pages EXCEPT ![Min(HasSpace)].reserved = @ + 1]
    /\ Enqueue([op EXCEPT !.page = Min(HasSpace), !.id = latest + 1, !.data = writes + 1])
    /\ UNCHANGED <<flash, flashing, swap, gc, phase, tok, old, opened, cuts, timeouts>>

RecordWrite(f, k) ==
    WriteEnqueue([NewOp EXCEPT !.code = "write", !.step = "begin", !.file = f, !.key = k])

RecordUpdate(f, k, id) ==
    WriteEnqueue([NewOp EXCEPT !.code = "update", !.step = "find", !.file = f, !.key = k,
                               !.target = id])

RecordDelete(id) ==
    /\ CanCall
    /\ Enqueue([NewOp EXCEPT !.code = "delete", !.step = "flag", !.target = id])
    /\ UNCHANGED <<flash, flashing, pages, swap, gc, phase, latest, tok, old, opened, bounds>>

FileDelete(f) ==
    /\ CanCall
    /\ Enqueue([NewOp EXCEPT !.code = "delete file", !.step = "flag", !.file = f])
    /\ UNCHANGED <<flash, flashing, pages, swap, gc, phase, latest, tok, old, opened, bounds>>

(* fds_gc asks a collection that was left off to go on where it stopped;    *)
(* one that is still running takes that for itself.                         *)
GcRequest ==
    /\ CanCall
    /\ Enqueue(NewOp)
    /\ gc' = [gc EXCEPT !.resume = @ \/ gc.state # "begin"]
    /\ UNCHANGED <<flash, flashing, pages, swap, phase, latest, tok, old, opened, bounds>>

(* fds_record_open and fds_record_close; the open count stays up when the   *)
(* record cannot be found any more.                                         *)
RecordOpen(loc) ==
    /\ Readers /\ phase = "initialized" /\ hand \in {"idle", "event"} /\ opened = NoDesc
    /\ opened' = [id |-> RecordAt(loc).id, addr |-> pages[loc[1]].addr, slot |-> loc[2],
                  page |-> loc[1], moved |-> FALSE]
    /\ pages' = [pages EXCEPT ![loc[1]].open = @ + 1]
    /\ UNCHANGED <<flash, flashing, hand, result, swap, gc, phase, queue, latest, tok, old, bounds>>

DescPages ==
    IF ~ opened.moved /\ flash[opened.addr].slot[opened.slot].id = opened.id
    THEN {i \in Index : pages[i].addr = opened.addr}
    ELSE {First(FindById(opened.id))[1] : loc \in FindById(opened.id)}

RecordClose ==
    /\ opened # NoDesc /\ hand \in {"idle", "event"}
    /\ pages' = [i \in Index |-> IF i \in DescPages /\ pages[i].open > 0
                                 THEN [pages[i] EXCEPT !.open = @ - 1] ELSE pages[i]]
    /\ opened' = NoDesc
    /\ UNCHANGED <<flash, flashing, hand, result, swap, gc, phase, queue, latest, tok, old, bounds>>
-----------------------------------------------------------------------------
Init ==
    /\ pages = NoPages /\ swap = NoSwap /\ gc = GcIdle /\ phase = "off" /\ queue = <<>>
    /\ latest = 0 /\ tok = TokStart /\ old = NoOld /\ opened = NoDesc
    /\ flashing = NoFlash /\ hand = "idle" /\ result = "success"
    /\ flash = [p \in Phys |-> Blank]
    /\ writes = 0 /\ cuts = 0 /\ timeouts = 0

InitExecute == InitTimeout \/ InitTagSwap \/ InitTagData \/ InitEraseSwap \/ InitPromoteSwap
WriteExecute == \/ WriteTimeout \/ UpdateFindsNothing \/ WriteHeaderBegin \/ WriteRecordId
                \/ WriteData \/ WriteHeaderFinalize \/ WriteFlagDirty \/ WriteDone
DeleteExecute == DeleteTimeout \/ DeleteRecord \/ DeleteDone \/ DeleteFile
GcExecute == \/ GcTimeout \/ GcBegin \/ GcNextPage \/ GcFindNext \/ GcCopyAgain
             \/ GcEraseAgain \/ GcPromote \/ GcTagSwap \/ GcDiscardAgain
QueueProcess == InitExecute \/ WriteExecute \/ DeleteExecute \/ GcExecute \/ QueueNext

(* A collection is asked for when none is queued but one that just ended,   *)
(* as the peer manager's flash_cleaning has it.                             *)
Collecting == \E i \in 1 .. Len(queue) : queue[i].code = "gc" /\ ~ (i = 1 /\ hand = "event")

(* A client names a record that it has just found; another call of it may   *)
(* have taken the record away by the time the operation is executed.        *)
Ids == {RecordAt(loc).id : loc \in Found}
Client ==
    \/ \E f \in Files, k \in Keys :
          /\ writes < MaxWrites
          /\ RecordWrite(f, k) \/ \E id \in Ids : RecordUpdate(f, k, id)
    \/ \E f \in Files : FileDelete(f)
    \/ \E id \in Ids : RecordDelete(id)
    \/ ~ Collecting /\ GcRequest
    \/ \E loc \in Found : RecordOpen(loc)
    \/ RecordClose

Next == Boot \/ QueueProcess \/ FlashDone \/ FlashTimeout \/ PowerCut \/ Client

(* The SoftDevice reports every flash operation in the end, the handler     *)
(* runs when it does, and a chip without power is powered again.            *)
Fairness == WF_vars(Boot) /\ WF_vars(QueueProcess) /\ WF_vars(FlashDone)
Spec == Init /\ [][Next]_vars /\ Fairness
-----------------------------------------------------------------------------
(* The records a reset would find now: those of the data pages and, while a *)
(* page waits to be tagged, those of the swap page, which holds its copy.   *)
Survives(p) ==
    \/ flash[p].tag = "data"
    \/ flash[p].tag = "swap" /\ \E q \in Phys : PageCanTag(flash[q])
Stored == UNION {{flash[p].slot[i].data : i \in Records(flash[p])} : p \in {q \in Phys : Survives(q)}}
Readable == {RecordAt(loc).data : loc \in Found}

(* What the queue is to write, and to remove. *)
Queued == {queue[i] : i \in 1 .. Len(queue)}
Pending == {op.data : op \in {o \in Queued : o.code \in {"write", "update"}}} \ Stored
Targeted(c) == \E op \in Queued :
    \/ op.code \in {"delete", "update"} /\ op.target = c.id
    \/ op.code = "delete file" /\ op.file = c.file
Doomed == {c.data : c \in {x \in UNION {{flash[p].slot[i] : i \in Records(flash[p])} : p \in Phys} :
                             Targeted(x)}} \intersect Stored

Quiet == phase = "initialized" /\ hand = "idle" /\ timeouts = 0

\* The words of flash, the pages in RAM and the queue are of their kinds.  As
\* long as no flash operation has been given up, no word is ever programmed
\* over another value: record_header_write_begin always finds an erased slot.
Spoils(bad) == IF timeouts = 0 THEN {} ELSE {bad}
TypeOK ==
    /\ flash \in [Phys -> [tag : {"none", "magic", "swap", "data"} \union Spoils("spoiled"),
                           slot : [1 .. Slots ->
                             [key : Keys \union {"none", "dirty"} \union Spoils("spoiled"),
                              file : Files \union {NoFile} \union Spoils(-1),
                              id : Nat \union Spoils(-1), data : Nat \union Spoils(-1)]]]]
    /\ pages \in [Index -> [type : {"data", "erased", "undefined"}, addr : Phys \union {NoPage},
                            offset : 0 .. Slots + 1, reserved : 0 .. Slots, open : Nat, canGc : BOOLEAN]]
    /\ swap \in [addr : Phys \union {NoPage}, offset : 0 .. Slots + 1]
    /\ Len(queue) <= QueueSize

\* Whenever the storage rests, a client reads exactly what a reset would find:
\* neither a half-written record nor one that garbage collection left behind,
\* and every physical page has one role in RAM.
ReadableIsStored == Quiet /\ flashing = NoFlash =>
    /\ Readable = Stored
    /\ {pages[i].addr : i \in Index} \union {swap.addr} = Phys

\* No two records a client can read carry the same record id, though boots take
\* the latest id from what page_scan sees and garbage collection copies records.
UniqueIds == Quiet => \A a, b \in Found : RecordAt(a).id = RecordAt(b).id => a = b

\* Through updates, collections, power cuts and installations, records appear
\* once and only when asked for, and disappear only while a queued operation is
\* to remove them, as long as no flash operation has been given up.
Store == INSTANCE RecordStore WITH
    store <- Stored, pending <- Pending, doomed <- Doomed, issued <- writes
KeepsRecords ==
    /\ Store!Init
    /\ [][timeouts' = 0 => [Store!Next]_<<Stored, Pending, Doomed, writes>>]_vars

\* An update takes the old record away only once the new one is there for good:
\* a power cut in between leaves the old one, or both.
UpdateNeverLoses == [][timeouts' = 0 => \A d \in Stored \ Stored' :
      queue # <<>> /\ Op.code = "update" => Op.data \in Stored']_vars

\* Whatever a power cut has left on the pages, the next boots install it.
Installs == phase = "off" ~> (phase = "initialized" \/ timeouts > 0)

\* What page_offsets_update is for: after a write that could not be completed,
\* the next record goes to erased flash.
OffsetsErased == phase = "initialized" /\ queue = <<>> =>
    \A i \in Index : pages[i].type = "data" /\ pages[i].offset <= Slots =>
        flash[pages[i].addr].slot[pages[i].offset] = Empty
=============================================================================
