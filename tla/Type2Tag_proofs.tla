--------------------------- MODULE Type2Tag_proofs ---------------------------
(***************************************************************************)
(* Proofs about Type 2 tags, for tags of any size, URIs of any length and  *)
(* any buffer up to the size it has.                                       *)
(***************************************************************************)
EXTENDS Type2Tag, TLAPS

(* A number kept in a byte.                                                 *)
LEMMA Uint8Range == \A n \in Nat : Uint8(n) \in 0 .. 255 /\ (n < 256 => Uint8(n) = n)
BY DEF Uint8

LEMMA AreaRange == \A t \in Tags : /\ DataBytes(t) \in Nat /\ DataBlocks(t) \in Nat
                                   /\ DataBytes(t) = 4 * DataBlocks(t)
                                   /\ DataLen(t) \in Nat /\ DataLen(t) <= DataBytes(t)
BY TagAssumption DEF DataBytes, DataBlocks, DataLen

(* On a tag that fits the buffer the loop stops before the byte wraps.      *)
LEMMA LoopBound ==
    ASSUME NumbersIInv, Fits(tag)
    PROVE  blocks_to_read = DataBlocks(tag) /\ blocks_to_read \in Nat /\ blocks_to_read <= 252
BY AreaRange, BufferAssumption DEF NumbersIInv, Fits, blocks_to_read, Uint8

LEMMA StopNumbers == ASSUME NumbersIInv, NEW r, Stop(r), tag' \in Tags PROVE NumbersIInv'
BY DEF NumbersIInv, Stop

LEMMA LoopNumbers ==
    ASSUME NumbersIInv, Fits(tag), NEW b \in Nat, Loop(b), tag' = tag
    PROVE  NumbersIInv'
BY DEF NumbersIInv, Loop, Fits, blocks_to_read

LEMMA WriteNumbers == NumbersIInv /\ Write => NumbersIInv'
<1> SUFFICES ASSUME NumbersIInv, Write PROVE NumbersIInv'
  OBVIOUS
<1>1. ASSUME NEW u \in Urls, UriWrite(u) PROVE NumbersIInv'
  <2>1. CASE Stop("failed")
    BY <1>1, <2>1, StopNumbers DEF UriWrite, NumbersIInv
  <2>2. CASE ~TooLong(Uint8(u), tag) /\ ~Stop("failed")
    <3>1. Uint8(u) \in Nat /\ Uint8(u) >= 1 /\ Uint8(u) + 9 <= DataBytes(tag)
      BY <2>2, UrlAssumption, Uint8Range, AreaRange DEF TooLong, NumbersIInv
    <3>2. QED
      BY <1>1, <2>2, <3>1 DEF UriWrite, NumbersIInv, FirstDataBlock
  <2>3. QED
    BY <1>1, <2>1, <2>2 DEF UriWrite
<1>2. CASE HeaderPage
  <2>1. Uint8(url) \in Nat
    BY UrlAssumption, Uint8Range DEF NumbersIInv
  <2>2. QED
    BY <1>2, <2>1 DEF HeaderPage, NextPage, PageWrite, NumbersIInv
<1>3. CASE TextPage
  <2>1. Uint8(url) \in Nat
    BY UrlAssumption, Uint8Range DEF NumbersIInv
  <2>2. CASE Stop("written")
    BY <1>3, <2>2, StopNumbers DEF TextPage, PageWrite, NumbersIInv
  <2>3. CASE uri_len > 4 /\ NextPage("text", uri_len - 4)
    BY <1>3, <2>1, <2>3 DEF TextPage, NextPage, PageWrite, NumbersIInv
  <2>4. CASE uri_len = 4 /\ NextPage("terminator", uri_len)
    BY <1>3, <2>1, <2>4 DEF TextPage, NextPage, PageWrite, NumbersIInv
  <2>5. QED
    BY <1>3, <2>2, <2>3, <2>4 DEF TextPage
<1>4. CASE TerminatorPage
  BY <1>4, StopNumbers DEF TerminatorPage, PageWrite, NumbersIInv
<1>5. CASE PageFails
  BY <1>5, StopNumbers DEF PageFails, PageWrite, NumbersIInv
<1>6. QED
  BY <1>1, <1>2, <1>3, <1>4, <1>5 DEF Write

LEMMA ReadNumbers == NumbersIInv /\ Read => NumbersIInv'
<1> SUFFICES ASSUME NumbersIInv, Read PROVE NumbersIInv'
  OBVIOUS
<1>1. ASSUME NEW known \in BOOLEAN, t2t_data_read(known) PROVE NumbersIInv'
  BY <1>1, StopNumbers, LoopNumbers DEF t2t_data_read, FirstDataBlock, NumbersIInv
<1>2. CASE BlocksRead
  <2>1. block_num + 4 \in Nat /\ Fits(tag)
    BY <1>2 DEF BlocksRead, NumbersIInv
  <2>2. QED
    <3>1. Uint8(block_num + 4) \in Nat
      BY <2>1, Uint8Range
    <3>2. QED
      BY <1>2, <2>1, <3>1, LoopNumbers DEF BlocksRead
<1>3. CASE ReadFails \/ t2t_data_analyze
  BY <1>3, StopNumbers DEF ReadFails, t2t_data_analyze, NumbersIInv
<1>4. QED
  BY <1>1, <1>2, <1>3 DEF Read

LEMMA NextNumbers == NumbersIInv /\ [Next]_vars => NumbersIInv'
<1> SUFFICES ASSUME NumbersIInv, [Next]_vars PROVE NumbersIInv'
  OBVIOUS
<1>1. ASSUME NEW t \in Tags, TagListed(t) PROVE NumbersIInv'
  BY <1>1, StopNumbers DEF TagListed
<1>2. CASE NfcField
  BY <1>2, StopNumbers DEF NfcField, NumbersIInv
<1>3. CASE TagLeaves \/ UNCHANGED vars
  BY <1>3 DEF TagLeaves, vars, locals, NumbersIInv, Fits, blocks_to_read
<1>4. QED
  BY <1>1, <1>2, <1>3, WriteNumbers, ReadNumbers DEF Next

LEMMA NumbersInvariance == Spec => []NumbersIInv
<1>1. Init => NumbersIInv
  BY DEF Init, NumbersIInv
<1>2. QED
  BY <1>1, NextNumbers, PTL DEF Spec

(* No page beyond the data area is written (adafruit_pn532_ndef_uri_tag2_   *)
(* write), whatever the length of the URI and the size of the tag.          *)
THEOREM WritesStayInside == Spec => []WritesInArea
<1>1. NumbersIInv => WritesInArea
  <2> SUFFICES ASSUME NumbersIInv, pc \in {"header", "text", "terminator"}
               PROVE  current_page \in FirstDataBlock .. 3 + DataBlocks(tag)
    BY DEF WritesInArea
  <2>1. /\ Uint8(url) \in Nat /\ Uint8(url) + 9 <= 4 * DataBlocks(tag)
        /\ DataBlocks(tag) \in Nat
    BY UrlAssumption, Uint8Range, AreaRange DEF NumbersIInv
  <2>2. CASE pc = "header"
    <3>1. uri_len >= 1 /\ uri_len = Uint8(url) /\ current_page \in {4, 5}
      BY <2>2 DEF NumbersIInv
    <3>2. QED
      BY <2>1, <3>1 DEF FirstDataBlock
  <2>3. CASE pc = "text"
    <3>1. uri_len >= 1 /\ 4 * current_page + uri_len = 24 + Uint8(url) /\ uri_len \in Nat /\ current_page \in Nat
      BY <2>3 DEF NumbersIInv
    <3>2. 4 * current_page <= 4 * (3 + DataBlocks(tag)) + 3 - uri_len
      BY <2>1, <3>1
    <3>3. Uint8(url) >= uri_len
      BY <2>1, <2>3 DEF NumbersIInv
    <3>4. QED
      BY <2>1, <3>1, <3>2, <3>3 DEF FirstDataBlock
  <2>4. CASE pc = "terminator"
    BY <2>1, <2>4 DEF NumbersIInv, FirstDataBlock
  <2>5. QED
    BY <2>2, <2>3, <2>4
<1>2. QED
  BY <1>1, NumbersInvariance, PTL

(* The loop of t2t_data_read gets on, block by block: its byte does not     *)
(* wrap, on any tag and with any buffer that is not larger than it is now.  *)
THEOREM ReadGetsOn == Spec => BlockAdvances
<1> DEFINE A == pc = "read" /\ pc' = "read" => block_num' >= block_num
<1>1. NumbersIInv /\ [Next]_vars => [A]_vars
  <2> SUFFICES ASSUME NumbersIInv, Next, pc = "read", pc' = "read"
               PROVE  block_num' >= block_num
    OBVIOUS
  <2>1. block_num \in Nat /\ Fits(tag) /\ block_num < blocks_to_read
    BY DEF NumbersIInv
  <2>2. block_num' = block_num \/ block_num' = Uint8(block_num + 4)
    BY DEF Next, Read, Write, TagListed, TagLeaves, NfcField, UriWrite, HeaderPage, TextPage,
           TerminatorPage, PageFails, t2t_data_read, BlocksRead, ReadFails, t2t_data_analyze,
           Stop, Loop, locals
  <2>3. Uint8(block_num + 4) = block_num + 4
    BY <2>1, LoopBound, Uint8Range
  <2>4. QED
    BY <2>1, <2>2, <2>3
<1>2. QED
  BY <1>1, NumbersInvariance, PTL DEF Spec, BlockAdvances

-----------------------------------------------------------------------------

(* What a write that succeeds leaves on the tag.                            *)
LEMMA PageWritten ==
    ASSUME WholeIInv, NumbersIInv, Writing, NEW c, PageWrite(c, TRUE)
    PROVE  /\ tag' = tag
           /\ pages' = [t \in Tags |-> pages'[t]]
           /\ current_page \in DOMAIN pages'[tag] /\ pages'[tag][current_page] = c
           /\ \A i \in 4 .. current_page - 1 :
                  /\ i \in DOMAIN pages'[tag]
                  /\ pages'[tag][i] = IF i < 6 THEN Header(url, i) ELSE Text(url, i - 6)
<1> DEFINE g == Copied(pages[tag], [b \in {current_page} |-> c], {current_page})
<1>1. tag' = tag /\ pages' = [pages EXCEPT ![tag] = g] /\ tag \in Tags
  BY DEF PageWrite, NumbersIInv
<1>2. pages'[tag] = g /\ pages' = [t \in Tags |-> pages'[t]]
  BY <1>1 DEF WholeIInv
<1> HIDE DEF g
<1>3. /\ current_page \in DOMAIN g /\ g[current_page] = c
      /\ \A i \in DOMAIN pages[tag] : i # current_page => i \in DOMAIN g /\ g[i] = pages[tag][i]
  BY DEF Copied, g
<1>4. current_page \in Nat
  BY DEF NumbersIInv
<1>5. ASSUME NEW i \in 4 .. current_page - 1
      PROVE  i \in DOMAIN g /\ g[i] = IF i < 6 THEN Header(url, i) ELSE Text(url, i - 6)
  <2>1. i # current_page
    BY <1>4
  <2>2. QED
    BY <1>3, <2>1 DEF WholeIInv
<1>6. QED
  BY <1>1, <1>2, <1>3, <1>5

(* A page more, and the record is one page longer.                          *)
LEMMA PageAdded ==
    ASSUME WholeIInv, NumbersIInv, Writing, NEW p, NEW len, NextPage(p, len),
           p \in {"header", "text", "terminator"},
           PageWrite(IF current_page < 6 THEN Header(url, current_page)
                     ELSE Text(url, current_page - 6), TRUE)
    PROVE  WholeIInv'
<1>1. /\ current_page' = current_page + 1 /\ current_page \in Nat /\ url' = url
      /\ result = "none" /\ result' = "none"
  BY DEF NextPage, NumbersIInv, WholeIInv, Writing
<1>2. ASSUME NEW i \in 4 .. current_page' - 1
      PROVE  /\ i \in DOMAIN pages'[tag']
             /\ pages'[tag'][i] = IF i < 6 THEN Header(url', i) ELSE Text(url', i - 6)
  <2>1. CASE i = current_page
    BY <1>1, <2>1, PageWritten
  <2>2. CASE i # current_page
    <3>1. i \in 4 .. current_page - 1
      BY <1>1, <2>2
    <3>2. QED
      BY <1>1, <3>1, PageWritten
  <2>3. QED
    BY <2>1, <2>2
<1>3. QED
  BY <1>1, <1>2, PageWritten DEF WholeIInv, WrittenIsWhole

(* The last page, and the record is whole.                                  *)
LEMMA LastPage ==
    ASSUME WholeIInv, NumbersIInv, Writing, NEW c, PageWrite(c, TRUE), Stop("written"),
           \/ pc = "text" /\ uri_len < 4 /\ c = Text(url, current_page - 6)
           \/ pc = "terminator" /\ c = Terminator
    PROVE  WholeIInv'
<1>1. pc' = "idle" /\ result' = "written" /\ url' = url /\ tag' = tag
  BY PageWritten DEF Stop
<1>2. ASSUME url < 256 PROVE Holds(pages'[tag], url)
  <2>1. url \in Nat /\ Uint8(url) = url /\ current_page \in Nat /\ uri_len \in Nat
    BY <1>2, UrlAssumption, Uint8Range DEF NumbersIInv
  <2>2. /\ current_page = 6 + url \div 4
        /\ url % 4 = 0 => c = Terminator
        /\ url % 4 # 0 => c = Text(url, url \div 4)
    <3>1. CASE pc = "text" /\ uri_len < 4 /\ c = Text(url, current_page - 6)
      <4>1. uri_len \in 1 .. 3 /\ 4 * current_page + uri_len = 24 + url
        BY <2>1, <3>1 DEF NumbersIInv
      <4>2. url = 4 * (current_page - 6) + uri_len
        BY <2>1, <4>1
      <4>3. url \div 4 = current_page - 6 /\ url % 4 # 0
        BY <2>1, <4>1, <4>2
      <4>4. QED
        BY <2>1, <3>1, <4>3
    <3>2. CASE pc = "terminator" /\ c = Terminator
      <4>1. 4 * current_page = 24 + url
        BY <2>1, <3>2 DEF NumbersIInv
      <4>2. url \div 4 = current_page - 6 /\ url % 4 = 0
        BY <2>1, <4>1
      <4>3. QED
        BY <2>1, <3>2, <4>2
    <3>3. QED
      BY <3>1, <3>2
  <2>3. \A i \in 4 .. current_page - 1 :
            /\ i \in DOMAIN pages'[tag]
            /\ pages'[tag][i] = IF i < 6 THEN Header(url, i) ELSE Text(url, i - 6)
    BY PageWritten
  <2>4. current_page \in DOMAIN pages'[tag] /\ pages'[tag][current_page] = c
    BY PageWritten
  <2>5. 4 .. 6 + url \div 4 \subseteq DOMAIN pages'[tag]
    BY <2>1, <2>2, <2>3, <2>4
  <2>6. \A i \in {4, 5} : pages'[tag][i] = Header(url, i)
    BY <2>1, <2>2, <2>3
  <2>7. ASSUME NEW i \in 0 .. (url \div 4) - 1 PROVE pages'[tag][6 + i] = Text(url, i)
    <3>1. 6 + i \in 4 .. current_page - 1 /\ ~(6 + i < 6) /\ (6 + i) - 6 = i
      BY <2>1, <2>2
    <3>2. QED
      BY <2>3, <3>1
  <2>8. QED
    BY <2>2, <2>4, <2>5, <2>6, <2>7 DEF Holds
<1>3. QED
  BY <1>1, <1>2, PageWritten DEF WholeIInv, WrittenIsWhole, Writing

(* An operation that ends without success promises nothing.                 *)
LEMMA StopWhole ==
    ASSUME WholeIInv, NEW r, r # "written", Stop(r), pages' = [t \in Tags |-> pages'[t]]
    PROVE  WholeIInv'
BY DEF WholeIInv, WrittenIsWhole, Writing, Stop

LEMMA NextWhole == WholeIInv /\ NumbersIInv /\ [Next]_vars => WholeIInv'
<1> SUFFICES ASSUME WholeIInv, NumbersIInv, [Next]_vars PROVE WholeIInv'
  OBVIOUS
<1>1. ASSUME NEW t \in Tags, TagListed(t) PROVE WholeIInv'
  BY <1>1, StopWhole DEF TagListed, WholeIInv
<1>2. CASE NfcField
  BY <1>2, StopWhole DEF NfcField, WholeIInv
<1>3. CASE TagLeaves \/ UNCHANGED vars
  BY <1>3 DEF TagLeaves, vars, locals, WholeIInv, WrittenIsWhole, Writing
<1>4. ASSUME NEW u \in Urls, UriWrite(u) PROVE WholeIInv'
  <2>1. CASE Stop("failed")
    BY <1>4, <2>1, StopWhole DEF UriWrite, WholeIInv
  <2>2. CASE pc' = "header" /\ result' = "none" /\ current_page' = 4
    BY <1>4, <2>2 DEF UriWrite, WholeIInv, WrittenIsWhole, Writing
  <2>3. QED
    BY <1>4, <2>1, <2>2 DEF UriWrite, FirstDataBlock
<1>5. CASE HeaderPage
  <2>1. current_page < 6
    BY <1>5 DEF HeaderPage, NumbersIInv
  <2>2. QED
    BY <1>5, <2>1, PageAdded DEF HeaderPage, Writing
<1>6. CASE TextPage
  <2>1. current_page \in Nat /\ ~(current_page < 6)
    <3>1. uri_len \in 1 .. Uint8(url) /\ 4 * current_page + uri_len = 24 + Uint8(url)
          /\ current_page \in Nat /\ Uint8(url) \in Nat /\ uri_len \in Nat
      BY <1>6, UrlAssumption, Uint8Range DEF TextPage, NumbersIInv
    <3>2. QED
      BY <3>1
  <2>2. CASE uri_len < 4 /\ Stop("written")
    BY <1>6, <2>2, LastPage DEF TextPage, Writing
  <2>3. CASE \E p \in {"text", "terminator"}, len \in Int : NextPage(p, len)
    BY <1>6, <2>1, <2>3, PageAdded DEF TextPage, Writing
  <2>4. QED
    BY <1>6, <2>2, <2>3 DEF TextPage, NumbersIInv
<1>7. CASE TerminatorPage
  BY <1>7, LastPage DEF TerminatorPage, Writing
<1>8. CASE PageFails
  <2>1. pages' = [t \in Tags |-> pages'[t]] /\ Stop("failed")
    BY <1>8 DEF PageFails, PageWrite, WholeIInv
  <2>2. QED
    BY <2>1, StopWhole
<1>9. CASE Read
  <2>1. UNCHANGED <<tag, pages>> /\ pc \in {"idle", "read", "analyze"}
    BY <1>9 DEF Read, t2t_data_read, BlocksRead, ReadFails, t2t_data_analyze
  <2>2. CASE \E r \in {"failed", "read"} : Stop(r)
    BY <2>1, <2>2, StopWhole DEF WholeIInv
  <2>3. CASE \E b \in Nat : Loop(b)
    BY <2>1, <2>3 DEF Loop, WholeIInv, WrittenIsWhole, Writing
  <2>4. Uint8(block_num + 4) \in Nat /\ FirstDataBlock \in Nat
    BY Uint8Range DEF NumbersIInv, FirstDataBlock
  <2>5. ASSUME NEW known \in BOOLEAN, t2t_data_read(known) PROVE WholeIInv'
    BY <2>2, <2>3, <2>4, <2>5 DEF t2t_data_read
  <2>6. QED
    BY <1>9, <2>2, <2>3, <2>4, <2>5 DEF Read, BlocksRead, ReadFails, t2t_data_analyze
<1>10. QED
  BY <1>1, <1>2, <1>3, <1>4, <1>5, <1>6, <1>7, <1>8, <1>9 DEF Next, Write

(* A write that succeeds has put the whole record on the tag, terminator    *)
(* and all, for every length of a URI that a byte holds.                    *)
THEOREM SuccessIsWhole == Spec => []WrittenIsWhole
<1>1. Init => WholeIInv
  BY DEF Init, WholeIInv, WrittenIsWhole, Writing
<1>2. WholeIInv => WrittenIsWhole
  BY DEF WholeIInv
<1>3. QED
  BY <1>1, <1>2, NextWhole, NumbersInvariance, PTL DEF Spec

-----------------------------------------------------------------------------

(* A step of the loop brings in the blocks it reads and keeps the others.   *)
LEMMA BlocksCopied ==
    ASSUME NEW f, NEW g, NEW range
    PROVE  /\ \A b \in DOMAIN g \intersect range :
                  b \in DOMAIN Copied(f, g, range) /\ Copied(f, g, range)[b] = g[b]
           /\ \A b \in DOMAIN f \ range :
                  b \in DOMAIN Copied(f, g, range) /\ Copied(f, g, range)[b] = f[b]
           /\ DOMAIN Copied(f, g, range) \subseteq DOMAIN f \union (DOMAIN g \intersect range)
BY DEF Copied

LEMMA BlocksReadIInv ==
    ASSUME ReadIInv, NumbersIInv, BlocksRead
    PROVE  ReadIInv'
<1>1. /\ pc = "read" /\ Fits(tag) /\ block_num \in Nat /\ block_num < blocks_to_read
      /\ UNCHANGED <<tag, pages>>
      /\ t2t_data' = Copied(t2t_data, pages[tag], block_num .. block_num + 3)
  BY DEF BlocksRead, NumbersIInv
<1>2. Uint8(block_num + 4) = block_num + 4 /\ blocks_to_read \in Nat /\ blocks_to_read' = blocks_to_read
  BY <1>1, LoopBound, Uint8Range DEF blocks_to_read
<1>3. /\ block_num' = block_num + 4
      /\ pc' = IF block_num + 4 < blocks_to_read THEN "read" ELSE "analyze"
  BY <1>2 DEF BlocksRead, Loop
<1>4. ASSUME NEW b \in 4 .. block_num + 3, b \in DOMAIN pages[tag]
      PROVE  b \in DOMAIN t2t_data' /\ t2t_data'[b] = pages[tag][b]
  <2>1. CASE b \in block_num .. block_num + 3
    BY <1>1, <1>4, <2>1, BlocksCopied
  <2>2. CASE b \notin block_num .. block_num + 3
    <3>1. b \in 4 .. block_num - 1
      BY <1>1, <2>2
    <3>2. b \in DOMAIN t2t_data /\ t2t_data[b] = pages[tag][b]
      BY <1>1, <1>4, <3>1 DEF ReadIInv, CopiedTo
    <3>3. QED
      BY <1>1, <2>2, <3>2, BlocksCopied
  <2>3. QED
    BY <2>1, <2>2
<1>5. CASE pc' = "read"
  BY <1>1, <1>3, <1>4, <1>5 DEF ReadIInv, CopiedTo
<1>6. CASE pc' = "analyze"
  <2>1. \A b \in 4 .. blocks_to_read - 1 : b \in 4 .. block_num + 3
    BY <1>1, <1>2, <1>3, <1>6
  <2>2. QED
    BY <1>1, <1>2, <1>4, <1>6, <2>1 DEF ReadIInv, CopiedTo
<1>7. QED
  BY <1>3, <1>5, <1>6

LEMMA NextReadIInv == ReadIInv /\ NumbersIInv /\ [Next]_vars => ReadIInv'
<1> SUFFICES ASSUME ReadIInv, NumbersIInv, [Next]_vars PROVE ReadIInv'
  OBVIOUS
<1>1. ASSUME NEW known \in BOOLEAN, t2t_data_read(known) PROVE ReadIInv'
  <2>1. CASE Stop("failed")
    BY <2>1 DEF Stop, ReadIInv
  <2>2. CASE Fits(tag) /\ Loop(FirstDataBlock)
    <3>1. /\ block_num' = 4 /\ pc' = IF 4 < blocks_to_read THEN "read" ELSE "analyze"
          /\ blocks_to_read \in Nat /\ blocks_to_read' = blocks_to_read
      BY <1>1, <2>2, LoopBound DEF t2t_data_read, Loop, FirstDataBlock, blocks_to_read
    <3>2. QED
      BY <3>1 DEF ReadIInv, CopiedTo
  <2>3. QED
    BY <1>1, <2>1, <2>2 DEF t2t_data_read
<1>2. CASE BlocksRead
  BY <1>2, BlocksReadIInv
<1>3. CASE TagLeaves \/ UNCHANGED vars
  BY <1>3 DEF TagLeaves, vars, locals, ReadIInv, CopiedTo, blocks_to_read
<1>4. ASSUME pc' \notin {"read", "analyze"} PROVE ReadIInv'
  BY <1>4 DEF ReadIInv
<1>5. ASSUME \/ \E t \in Tags : TagListed(t)
             \/ NfcField \/ Write \/ ReadFails \/ t2t_data_analyze
      PROVE  pc' \notin {"read", "analyze"}
  BY <1>5 DEF TagListed, NfcField, Write, UriWrite, HeaderPage, TextPage, TerminatorPage, PageFails,
              ReadFails, t2t_data_analyze, Stop, NextPage
<1>6. QED
  BY <1>1, <1>2, <1>3, <1>4, <1>5 DEF Next, Read

(* A record that lies in the blocks of the loop is in the buffer when it is *)
(* analysed, whatever earlier tags left there: for any tag and any URI.     *)
THEOREM ReadsAreBack == Spec => []ReadsBack
<1>1. Init => ReadIInv
  BY DEF Init, ReadIInv
<1>2. ReadIInv /\ NumbersIInv => ReadsBack
  <2> SUFFICES ASSUME ReadIInv, NumbersIInv, pc = "analyze", NEW u \in Urls,
                      6 + u \div 4 < blocks_to_read, Holds(pages[tag], u)
               PROVE  Holds(t2t_data, u)
    BY DEF ReadsBack
  <2>1. u \in Nat /\ u \div 4 \in Nat
    BY UrlAssumption
  <2>2. ASSUME NEW b \in 4 .. 6 + u \div 4
        PROVE  b \in DOMAIN t2t_data /\ t2t_data[b] = pages[tag][b]
    <3>1. blocks_to_read \in Int
      BY AreaRange DEF NumbersIInv, blocks_to_read, Uint8
    <3>2. b \in 4 .. blocks_to_read - 1 /\ b \in DOMAIN pages[tag]
      BY <2>1, <3>1 DEF Holds
    <3>3. QED
      BY <3>2 DEF ReadIInv, CopiedTo
  <2>3. \A i \in 0 .. (u \div 4) - 1 : 6 + i \in 4 .. 6 + u \div 4
    BY <2>1
  <2>4. {4, 5} \subseteq 4 .. 6 + u \div 4 /\ 6 + u \div 4 \in 4 .. 6 + u \div 4
    BY <2>1
  <2>5. QED
    BY <2>2, <2>3, <2>4 DEF Holds
<1>3. QED
  BY <1>1, <1>2, NextReadIInv, NumbersInvariance, PTL DEF Spec

-----------------------------------------------------------------------------

(* Types are kept: the pages written are pages of the tag, and the blocks   *)
(* read fit the buffer.                                                     *)
LEMMA TypesInWrite ==
    ASSUME TypeOK, NumbersIInv, Writing, NEW c, NEW ok, PageWrite(c, ok)
    PROVE  /\ tag' \in Tags /\ there' \in BOOLEAN /\ t2t_data' = t2t_data
           /\ \A t \in Tags : DOMAIN pages'[t] \subseteq Pages(t)
           /\ current_page \in 0 .. 254
<1>1. /\ Uint8(url) \in Nat /\ Uint8(url) <= 255 /\ Uint8(url) + 9 <= 4 * DataBlocks(tag)
      /\ DataBlocks(tag) \in Nat /\ current_page \in Nat /\ uri_len \in Nat
  BY UrlAssumption, Uint8Range, AreaRange DEF NumbersIInv, Writing
<1>2. current_page <= 5 \/ 4 * current_page <= 24 + Uint8(url)
  <2>1. CASE pc = "text"
    BY <1>1, <2>1 DEF NumbersIInv
  <2>2. QED
    BY <1>1, <2>1 DEF NumbersIInv, Writing
<1>3. current_page \in 0 .. 254 /\ current_page <= 3 + DataBlocks(tag)
  BY <1>1, <1>2
<1>4. current_page \in Pages(tag)
  BY <1>1, <1>3 DEF Pages
<1>5. CASE UNCHANGED pages
  BY <1>3, <1>5 DEF PageWrite, TypeOK
<1>6. CASE pages' = [pages EXCEPT ![tag] =
                        Copied(pages[tag], [b \in {current_page} |-> c], {current_page})]
  <2>1. DOMAIN Copied(pages[tag], [b \in {current_page} |-> c], {current_page}) \subseteq Pages(tag)
    BY <1>4, BlocksCopied DEF TypeOK
  <2>2. \A t \in Tags : pages'[t] = pages[t] \/ t = tag
    BY <1>6
  <2>3. pages'[tag] = Copied(pages[tag], [b \in {current_page} |-> c], {current_page})
        \/ pages'[tag] = pages[tag]
    BY <1>6
  <2>4. \A t \in Tags : DOMAIN pages'[t] \subseteq Pages(t)
    BY <2>1, <2>2, <2>3 DEF TypeOK
  <2>5. QED
    BY <1>3, <2>4 DEF PageWrite, TypeOK
<1>7. QED
  BY <1>5, <1>6 DEF PageWrite

LEMMA NothingIsEmpty == DOMAIN Nothing = {}
BY DEF Nothing

LEMMA StopTypes ==
    ASSUME TypeOK, NEW r \in {"none", "written", "read", "failed"}, Stop(r),
           tag' \in Tags, there' \in BOOLEAN,
           \A t \in Tags : DOMAIN pages'[t] \subseteq Pages(t), DOMAIN t2t_data' \subseteq Buffer
    PROVE  TypeOK'
BY DEF TypeOK, Stop, Pages, Buffer

LEMMA WriteTypes == TypeOK /\ NumbersIInv /\ Write => TypeOK'
<1> SUFFICES ASSUME TypeOK, NumbersIInv, Write PROVE TypeOK'
  OBVIOUS
<1>1. ASSUME NEW u \in Urls, UriWrite(u) PROVE TypeOK'
  <2>1. CASE Stop("failed")
    BY <1>1, <2>1, StopTypes DEF UriWrite, TypeOK
  <2>2. Uint8(u) \in 0 .. 255
    BY UrlAssumption, Uint8Range
  <2>3. QED
    BY <1>1, <2>1, <2>2 DEF UriWrite, TypeOK, FirstDataBlock, Pages, Buffer
<1>2. ASSUME Writing, NEW c, NEW ok, PageWrite(c, ok),
             \/ \E r \in {"written", "failed"} : Stop(r)
             \/ \E p \in {"header", "text", "terminator"}, len \in 0 .. 255 : NextPage(p, len)
      PROVE  TypeOK'
  <2>1. CASE \E r \in {"written", "failed"} : Stop(r)
    BY <1>2, <2>1, TypesInWrite, StopTypes DEF TypeOK
  <2>2. CASE \E p \in {"header", "text", "terminator"}, len \in 0 .. 255 : NextPage(p, len)
    <3>1. PICK p \in {"header", "text", "terminator"}, len \in 0 .. 255 : NextPage(p, len)
      BY <2>2
    <3>2. /\ tag' \in Tags /\ there' \in BOOLEAN /\ t2t_data' = t2t_data
          /\ \A t \in Tags : DOMAIN pages'[t] \subseteq Pages(t)
          /\ current_page \in 0 .. 254
      BY <1>2, TypesInWrite
    <3>3. QED
      BY <3>1, <3>2 DEF NextPage, TypeOK, Pages, Buffer
  <2>3. QED
    BY <1>2, <2>1, <2>2
<1>3. uri_len \in 0 .. 255
  BY DEF TypeOK
<1>4. CASE HeaderPage
  BY <1>2, <1>3, <1>4 DEF HeaderPage, Writing
<1>5. CASE TextPage
  <2>1. uri_len > 4 => uri_len - 4 \in 0 .. 255
    BY <1>3
  <2>2. QED
    BY <1>2, <1>3, <1>5, <2>1 DEF TextPage, Writing
<1>6. CASE TerminatorPage
  BY <1>2, <1>6 DEF TerminatorPage, Writing
<1>7. CASE PageFails
  BY <1>2, <1>7 DEF PageFails, Writing
<1>8. QED
  BY <1>1, <1>4, <1>5, <1>6, <1>7 DEF Write

LEMMA ReadTypes == TypeOK /\ NumbersIInv /\ Read => TypeOK'
<1> SUFFICES ASSUME TypeOK, NumbersIInv, Read PROVE TypeOK'
  OBVIOUS
<1>1. ASSUME NEW b \in 0 .. 255, Loop(b), UNCHANGED <<tag, there, pages>>,
             DOMAIN t2t_data' \subseteq Buffer
      PROVE  TypeOK'
  BY <1>1 DEF Loop, TypeOK, Pages, Buffer
<1>2. ASSUME NEW known \in BOOLEAN, t2t_data_read(known) PROVE TypeOK'
  <2>1. CASE Stop("failed")
    BY <1>2, <2>1, StopTypes DEF t2t_data_read, TypeOK
  <2>2. CASE Loop(FirstDataBlock)
    <3>1. FirstDataBlock \in 0 .. 255 /\ UNCHANGED <<tag, there, pages, t2t_data>>
      BY <1>2 DEF FirstDataBlock, t2t_data_read
    <3>2. QED
      BY <1>1, <2>2, <3>1 DEF TypeOK
  <2>3. QED
    BY <1>2, <2>1, <2>2 DEF t2t_data_read
<1>3. CASE BlocksRead
  <2>1. Uint8(block_num + 4) \in 0 .. 255
    BY Uint8Range DEF NumbersIInv
  <2>2. DOMAIN pages[tag] \subseteq Buffer
    <3>1. DataBlocks(tag) \in Nat /\ 4 * DataBlocks(tag) + 16 <= BufferSize
      BY <1>3, AreaRange DEF BlocksRead, NumbersIInv, Fits
    <3>2. 3 + DataBlocks(tag) <= BufferSize \div 4 - 1
      BY <3>1, BufferAssumption
    <3>3. BufferSize \div 4 - 1 \in Nat
      BY BufferAssumption
    <3>4. QED
      BY <3>1, <3>2, <3>3 DEF TypeOK, NumbersIInv, Pages, Buffer
  <2>3. DOMAIN t2t_data' \subseteq Buffer
    BY <1>3, <2>2, BlocksCopied DEF BlocksRead, TypeOK
  <2>4. QED
    BY <1>1, <1>3, <2>1, <2>3 DEF BlocksRead
<1>4. CASE ReadFails \/ t2t_data_analyze
  BY <1>4, StopTypes DEF ReadFails, t2t_data_analyze, TypeOK
<1>5. QED
  BY <1>2, <1>3, <1>4 DEF Read

(* Types are kept: pages stay on their tag, blocks in the buffer, and every *)
(* local in its byte.                                                       *)
THEOREM TagTypes == Spec => []TypeOK
<1>1. Init => TypeOK
  <2> SUFFICES ASSUME Init PROVE TypeOK
    OBVIOUS
  <2>1. (\A t \in Tags : DOMAIN pages[t] \subseteq Pages(t)) /\ DOMAIN t2t_data \subseteq Buffer
    BY NothingIsEmpty, Zenon DEF Init
  <2>2. /\ pc = "idle" /\ result = "none" /\ tag \in Tags /\ there \in BOOLEAN
        /\ url = 0 /\ uri_len = 0 /\ current_page = 0 /\ block_num = 0
    BY DEF Init
  <2>3. QED
    BY <2>1, <2>2 DEF TypeOK
<1>2. TypeOK /\ NumbersIInv /\ [Next]_vars => TypeOK'
  <2> SUFFICES ASSUME TypeOK, NumbersIInv, [Next]_vars PROVE TypeOK'
    OBVIOUS
  <2>1. ASSUME NEW t \in Tags, TagListed(t) PROVE TypeOK'
    BY <2>1, StopTypes DEF TagListed, TypeOK
  <2>2. CASE NfcField
    <3>1. DOMAIN t2t_data' \subseteq Buffer
      BY <2>2, NothingIsEmpty, Zenon DEF NfcField
    <3>2. QED
      BY <2>2, <3>1, StopTypes DEF NfcField, TypeOK
  <2>3. CASE TagLeaves \/ UNCHANGED vars
    <3>1. /\ UNCHANGED <<pc, result, tag, pages, url, uri_len, current_page, block_num, t2t_data>>
          /\ there' \in BOOLEAN
      BY <2>3 DEF TagLeaves, vars, locals, TypeOK
    <3>2. QED
      BY <3>1 DEF TypeOK
  <2>4. QED
    BY <2>1, <2>2, <2>3, WriteTypes, ReadTypes DEF Next
<1>3. QED
  BY <1>1, <1>2, NumbersInvariance, PTL DEF Spec
=============================================================================
