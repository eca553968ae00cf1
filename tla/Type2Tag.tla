------------------------------ MODULE Type2Tag ------------------------------
(***************************************************************************)
(* Reading and writing Type 2 tags: t2t_data_read_and_analyze of           *)
(* card_reader_manager.c and ndef_uri_tag2_write of adafruit_pn532.c, one  *)
(* exchange an action, with tags that leave and a host that restarts       *)
(* between any two.  main calls neither yet; the models take them as the   *)
(* operations of a library, called in any order.                           *)
(*                                                                         *)
(* A block, or page, is four bytes.  Its content is abstracted to the part *)
(* of which URI's record it is; what is none is left out, so a memory is a *)
(* function on some blocks.  A URI is its length.                          *)
(***************************************************************************)
EXTENDS Integers

CONSTANTS Tags,
          Area,       \* Area[t]: the data area size byte of a tag
          Urls,       \* lengths of the URIs written
          BufferSize  \* TAG_TYPE_2_DATA_BUFFER_SIZE

ASSUME TagAssumption == Area \in [Tags -> 0 .. 255] /\ Tags # {}
ASSUME UrlAssumption == Urls \subseteq Nat

\* As configured, 1024, or smaller; the buffer holds the header of a tag.
ASSUME BufferAssumption == BufferSize \in 16 .. 1024

\* TAG_TYPE_2_DATA_AREA_MULTIPLICATOR, T2T_BLOCK_SIZE, T2T_FIRST_DATA_BLOCK_OFFSET
DataBytes(t) == 8 * Area[t]
DataBlocks(t) == DataBytes(t) \div 4
FirstDataBlock == 4
Uint8(n) == n % 256

Header(u, i) == [of |-> "header", url |-> u, at |-> i]
Text(u, i) == [of |-> "text", url |-> u, at |-> i] \* the last one, if short, ends with 0xFE
Terminator == [of |-> "terminator", url |-> 0, at |-> 0]

\* A memory of which nothing matters, and f with the blocks in range copied from g.
Nothing == [b \in {} |-> Terminator]
Copied(f, g, range) == [b \in (DOMAIN f \ range) \union (DOMAIN g \intersect range) |->
                            IF b \in range THEN g[b] ELSE f[b]]

\* The pages hold the record of u, whole and terminated.
Holds(f, u) ==
    /\ 4 .. 6 + u \div 4 \subseteq DOMAIN f
    /\ \A i \in {4, 5} : f[i] = Header(u, i)
    /\ \A i \in 0 .. (u \div 4) - 1 : f[6 + i] = Text(u, i)
    /\ f[6 + u \div 4] = IF u % 4 = 0 THEN Terminator ELSE Text(u, u \div 4)

VARIABLES pc,       \* "idle", "header", "text", "terminator" of a write; "read" and "analyze"
          result,   \* of the last operation: "none", "written", "read", "failed"
          tag,      \* the tag listed last
          there,    \* it still answers
          pages,    \* what is on the tags
          url, uri_len, current_page, \* of the write; url as long as result speaks of it
          block_num,                  \* of the read
          t2t_data  \* the static buffer of t2t_data_read_and_analyze

locals == <<uri_len, current_page, block_num>>
vars == <<pc, result, tag, there, pages, url, locals, t2t_data>>

Pages(t) == 0 .. 3 + DataBlocks(t)
Buffer == 0 .. BufferSize \div 4 - 1

TypeOK == /\ pc \in {"idle", "header", "text", "terminator", "read", "analyze"}
          /\ result \in {"none", "written", "read", "failed"}
          /\ tag \in Tags
          /\ there \in BOOLEAN
          /\ \A t \in Tags : DOMAIN pages[t] \subseteq Pages(t)
          /\ url \in Urls \union {0}
          /\ uri_len \in 0 .. 255
          /\ current_page \in 0 .. 255
          /\ block_num \in 0 .. 255
          /\ DOMAIN t2t_data \subseteq Buffer

Init == /\ pc = "idle"
        /\ result = "none"
        /\ tag \in Tags
        /\ there = FALSE
        /\ pages = [t \in Tags |-> Nothing]
        /\ url = 0 /\ uri_len = 0 /\ current_page = 0
        /\ block_num = 0
        /\ t2t_data = Nothing

-----------------------------------------------------------------------------
(* What happens outside. *)

\* An operation ends, and its locals with it.
Stop(r) == /\ pc' = "idle"
           /\ result' = r
           /\ url' = IF r = "written" THEN url ELSE 0
           /\ uri_len' = 0 /\ current_page' = 0 /\ block_num' = 0

\* adafruit_pn532_nfc_a_target_init finds the tag.
TagListed(t) == /\ pc = "idle"
                /\ tag' = t
                /\ there' = TRUE
                /\ Stop("none")
                /\ UNCHANGED <<pages, t2t_data>>

TagLeaves == there /\ there' = FALSE /\ UNCHANGED <<pc, result, tag, pages, url, locals, t2t_data>>

\* The host restarts; the buffer starts zeroed.
NfcField == /\ there' = FALSE
            /\ t2t_data' = Nothing
            /\ Stop("none")
            /\ UNCHANGED <<tag, pages>>

-----------------------------------------------------------------------------
(* adafruit_pn532_ndef_uri_tag2_write. *)

\* The caller passes the size of the tag, as far as a byte goes.
DataLen(t) == IF DataBytes(t) > 255 THEN 255 ELSE DataBytes(t)

\* Mutant: the terminator is forgotten.
TooLong_NoTerminator(len, t) == len < 1 \/ len > DataLen(t) - 8

\* Eight bytes of header, the URI, the terminator.
TooLong(len, t) == len < 1 \/ len + 1 > DataLen(t) - 8

\* strlen goes into a byte.
UriWrite(u) ==
    /\ pc = "idle" /\ there
    /\ \/ TooLong(Uint8(u), tag) /\ Stop("failed")
       \/ /\ ~TooLong(Uint8(u), tag)
          /\ pc' = "header"
          /\ result' = "none"
          /\ url' = u
          /\ uri_len' = Uint8(u)
          /\ current_page' = FirstDataBlock
          /\ UNCHANGED block_num
    /\ UNCHANGED <<tag, there, pages, t2t_data>>

\* adafruit_pn532_tag2_page_write; a write reported to have failed may be done.
PageWrite(content, ok) ==
    /\ \/ there /\ pages' = [pages EXCEPT ![tag] =
                           Copied(@, [b \in {current_page} |-> content], {current_page})]
       \/ ~ok /\ UNCHANGED pages
    /\ UNCHANGED <<tag, there, t2t_data>>

NextPage(p, len) == /\ pc' = p
                    /\ uri_len' = len
                    /\ current_page' = current_page + 1
                    /\ UNCHANGED <<result, url, block_num>>

\* Two pages of header.
HeaderPage == /\ pc = "header"
              /\ PageWrite(Header(url, current_page), TRUE)
              /\ NextPage(IF current_page = 5 THEN "text" ELSE "header", uri_len)

\* Mutant: a URI that fills its last page gets no terminator.
TextPage_NoTerminator ==
    /\ pc = "text"
    /\ PageWrite(Text(url, current_page - 6), TRUE)
    /\ IF uri_len > 4 THEN NextPage("text", uri_len - 4) ELSE Stop("written")

\* Mutant: only whole pages are counted off.
TextPage_WholePages ==
    /\ pc = "text"
    /\ PageWrite(Text(url, current_page - 6), TRUE)
    /\ IF uri_len = 4 THEN NextPage("terminator", uri_len) ELSE NextPage("text", uri_len - 4)

\* One page of text a turn.  A short one ends with the terminator; after a full
\* last one the terminator gets a page of its own.
TextPage ==
    /\ pc = "text"
    /\ PageWrite(Text(url, current_page - 6), TRUE)
    /\ \/ uri_len > 4 /\ NextPage("text", uri_len - 4)
       \/ uri_len = 4 /\ NextPage("terminator", uri_len)
       \/ uri_len < 4 /\ Stop("written")

TerminatorPage == pc = "terminator" /\ PageWrite(Terminator, TRUE) /\ Stop("written")

PageFails == /\ \/ pc = "header" /\ PageWrite(Header(url, current_page), FALSE)
                \/ pc = "text" /\ PageWrite(Text(url, current_page - 6), FALSE)
                \/ pc = "terminator" /\ PageWrite(Terminator, FALSE)
             /\ Stop("failed")

-----------------------------------------------------------------------------
(* t2t_data_read_and_analyze. *)

Fits(t) == DataBytes(t) + 16 <= BufferSize

\* A byte as well.
blocks_to_read == Uint8(DataBlocks(tag))

\* The loop goes on with block b, or ends.
Loop(b) == /\ pc' = IF b < blocks_to_read THEN "read" ELSE "analyze"
           /\ block_num' = b
           /\ result' = "none"
           /\ url' = 0
           /\ UNCHANGED <<uri_len, current_page>>

\* Blocks 0 to 3 say how large the tag is, if it is a Type 2 tag with a UID of
\* seven bytes (known) and is read.
t2t_data_read(known) ==
    /\ pc = "idle" /\ there
    /\ IF known /\ Fits(tag) THEN Loop(FirstDataBlock) ELSE Stop("failed")
    /\ UNCHANGED <<tag, there, pages, t2t_data>>

\* Mutant: the bytes of an exchange are taken for blocks.
BlocksRead_Skips ==
    /\ pc = "read" /\ there
    /\ t2t_data' = Copied(t2t_data, pages[tag], block_num .. block_num + 3)
    /\ Loop(Uint8(block_num + 16))
    /\ UNCHANGED <<tag, there, pages>>

\* adafruit_pn532_tag2_read: four blocks an exchange.
BlocksRead ==
    /\ pc = "read" /\ there
    /\ t2t_data' = Copied(t2t_data, pages[tag], block_num .. block_num + 3)
    /\ Loop(Uint8(block_num + 4))
    /\ UNCHANGED <<tag, there, pages>>

ReadFails == pc = "read" /\ Stop("failed") /\ UNCHANGED <<tag, there, pages, t2t_data>>

\* t2t_data_analyze parses the buffer, up to the size the tag states, and prints it.
t2t_data_analyze ==
    pc = "analyze" /\ Stop("read") /\ UNCHANGED <<tag, there, pages, t2t_data>>

-----------------------------------------------------------------------------

Write == \/ \E u \in Urls : UriWrite(u)
         \/ HeaderPage
         \/ TextPage
         \/ TerminatorPage
         \/ PageFails

Read == \/ \E known \in BOOLEAN : t2t_data_read(known)
        \/ BlocksRead
        \/ ReadFails
        \/ t2t_data_analyze

Next == \/ \E t \in Tags : TagListed(t)
        \/ TagLeaves
        \/ NfcField
        \/ Write
        \/ Read

Spec == Init /\ [][Next]_vars

-----------------------------------------------------------------------------
(* What must hold. *)

\* A write that reports success has put the whole record on the tag, whatever
\* was there before, if the length of its URI fits a byte.
WrittenIsWhole == result = "written" /\ url < 256 => Holds(pages[tag], url)

\* No page is written beyond the data area, where a tag has its lock bits.
WritesInArea == pc \in {"header", "text", "terminator"} =>
                    current_page \in FirstDataBlock .. 3 + DataBlocks(tag)

\* A record that lies in the blocks the loop is for is in the buffer when it is
\* analysed, in spite of what earlier tags left there.
ReadsBack == pc = "analyze" =>
    \A u \in Urls : 6 + u \div 4 < blocks_to_read /\ Holds(pages[tag], u) => Holds(t2t_data, u)

\* The number of the block is a byte and does not wrap, on any tag that fits the
\* buffer: the loop ends.
BlockAdvances == [][pc = "read" /\ pc' = "read" => block_num' >= block_num]_vars

\* The strengthening that makes the two about numbers inductive.
NumbersIInv ==
    /\ tag \in Tags
    /\ url \in Urls \union {0}
    /\ uri_len \in Nat /\ current_page \in Nat /\ block_num \in Nat
    /\ pc \in {"header", "text", "terminator"} => Uint8(url) + 9 <= DataBytes(tag)
    /\ pc = "header" => current_page \in {4, 5} /\ uri_len = Uint8(url) /\ uri_len >= 1
    /\ pc = "text" => uri_len \in 1 .. Uint8(url) /\ 4 * current_page + uri_len = 24 + Uint8(url)
    /\ pc = "terminator" => 4 * current_page = 24 + Uint8(url)
    /\ pc = "read" => block_num < blocks_to_read /\ Fits(tag)

\* And the one that makes WrittenIsWhole inductive: what a write has done so far.
Writing == pc \in {"header", "text", "terminator"}

WholeIInv ==
    /\ WrittenIsWhole
    /\ pages = [t \in Tags |-> pages[t]]
    /\ pc # "idle" => result = "none"
    /\ Writing => \A i \in 4 .. current_page - 1 :
           /\ i \in DOMAIN pages[tag]
           /\ pages[tag][i] = IF i < 6 THEN Header(url, i) ELSE Text(url, i - 6)

\* And the one that makes ReadsBack inductive: what the loop has read so far.
CopiedTo(n) == \A b \in 4 .. n - 1 :
    b \in DOMAIN pages[tag] => b \in DOMAIN t2t_data /\ t2t_data[b] = pages[tag][b]

ReadIInv == /\ pc = "read" => CopiedTo(block_num)
            /\ pc = "analyze" => CopiedTo(blocks_to_read)
=============================================================================
