------------------------------- MODULE Writer -------------------------------
(***************************************************************************)
(* nmjson_writer (src/writer/nmjson_writer_put_.c, nmjson_writer_init_.c): *)
(* JSON text written token by token through a callback, a FILE or a        *)
(* descriptor, any write of which may fail.                                *)
(*                                                                         *)
(* One action is one call.  The text is kept as a reader of JSON sees it:  *)
(* which containers it has open, what may come next, and whether it is     *)
(* still JSON.  White space, and so pretty printing, is left out: a white  *)
(* space that cannot be written fails the call where the next lexeme would.*)
(*                                                                         *)
(* The structure is the caller's duty (nmjson_writer.h:4).  The caller     *)
(* here nests calls as the nmjson_writer_with_ macros do: a block is       *)
(* entered when its begin succeeds, left by one end, whatever failed in    *)
(* between; members of an object have a key, elements of an array do not.  *)
(***************************************************************************)
EXTENDS JsonText, Integers

CONSTANT MaxDepth   \* bound: containers the caller nests, or leaves open when
                    \* their end failed

ASSUME DepthAssumption == MaxDepth \in Nat

VARIABLES
    depth, needComma,   \* self->state
    err,                \* self->err.num: none, a write's errno, EINVAL
    text,               \* what has been written
    blocks,             \* the kinds of the blocks the caller is in
    damaged             \* history: a call failed after it had written something,
                        \* or changed the writer without writing

vars == <<depth, needComma, err, text, blocks, damaged>>

\* container_type: "other" is any type that cannot have children.
Types == Kinds \cup {"other"}

\* Where the sequence of writes of a call fails.
Places == {"comma", "key", "colon", "token", "nowhere"}

TypeOK ==
    /\ depth \in Nat
    /\ needComma \in BOOLEAN
    /\ err \in {"none", "write", "inval"}
    /\ text \in Texts
    /\ blocks \in Seq(Kinds)
    /\ damaged \in BOOLEAN

-----------------------------------------------------------------------------
(* The text. *)

\* No longer the beginning of a JSON text; how it went on does not matter.
Spoilt == [NoText(FALSE) EXCEPT !.verdict = "rejected"]

\* The text t with one more lexeme.
Comma(t) == IF CanComma(t)  THEN Then(t, "next")  ELSE Spoilt
Name(t)  == IF CanName(t)   THEN Then(t, "colon") ELSE Spoilt
Colon(t) == IF CanColon(t)  THEN Then(t, "value") ELSE Spoilt
Value(t) == IF CanScalar(t) THEN Then(t, "sep")   ELSE Spoilt
Opening(t, k) == IF CanOpen(t)     THEN Opened(t, k) ELSE Spoilt
Closing(t, k) == IF CanClose(t, k) THEN Closed(t, k) ELSE Spoilt

-----------------------------------------------------------------------------
(* The calls. *)
InObject == blocks # <<>> /\ Last(blocks) = "object"

\* write_comma_ and write_key_, which every token begins with.
AfterComma == IF needComma THEN Comma(text) ELSE text
AfterKey   == IF InObject THEN Name(AfterComma) ELSE AfterComma
AfterColon == IF InObject THEN Colon(AfterKey) ELSE AfterKey

\* The places where a call has a write, and the text before that write.
CanFail(place) ==
    /\ place = "comma" => needComma
    /\ place \in {"key", "colon"} => InObject

Before(place) ==
    CASE place = "comma" -> text
      [] place = "key"   -> AfterComma
      [] place = "colon" -> AfterKey
      [] place = "token" -> AfterColon

\* What a failing write leaves: nothing of its lexeme, or, when that is longer
\* than a byte, a part of it.
Fails(place, torn) ==
    text' = IF torn /\ place \in {"key", "token"} THEN Spoilt
                                                   ELSE Before(place)

\* The failed call leaves the writer as it found it.
Failed(reason) ==
    /\ err' = reason
    /\ damaged' = (damaged \/ text' # text)
    /\ UNCHANGED <<depth, needComma, blocks>>

\* write_frame_token_ to its end: the value is written, a comma is due.
Wrote ==
    /\ text' = Value(AfterColon)
    /\ needComma' = TRUE
    /\ UNCHANGED <<depth, err, blocks, damaged>>

\* Mutant: the comma is due from the moment the token is begun.
PutAnticipating(place, torn) ==
    /\ blocks # <<>>
    /\ CanFail(place)
    /\ \/ place = "nowhere" /\ Wrote
       \/ /\ place # "nowhere"
          /\ Fails(place, torn)
          /\ needComma' = TRUE
          /\ err' = "write"
          /\ damaged' = (damaged \/ text' # text)
          /\ UNCHANGED <<depth, blocks>>

\* nmjson_writer_put_*: null, bool, int, uint, string and nstring.
Put(place, torn) ==
    /\ blocks # <<>>
    /\ CanFail(place)
    /\ \/ place = "nowhere" /\ Wrote
       \/ place # "nowhere" /\ Fails(place, torn) /\ Failed("write")

\* nmjson_writer_put_float: the NaN and the infinities are "nonfinite".  When
\* their own write fails the call goes on as if it had not; when the white space
\* before them does, it fails like the others.
PutFloat(value, place, torn) ==
    \/ /\ value = "nonfinite" /\ place = "token" => ~torn
       /\ Put(place, torn)
    \/ /\ value = "nonfinite" /\ place = "token"
       /\ blocks # <<>>
       /\ Fails(place, torn)
       /\ needComma' = TRUE
       /\ damaged' = TRUE
       /\ UNCHANGED <<depth, err, blocks>>

\* Mutant: only objects are counted.
BeginCountingObjects(type, place, torn) ==
    /\ Len(blocks) < MaxDepth /\ Len(text.open) < MaxDepth
    /\ blocks = <<>> => text = NoText(FALSE)
    /\ CanFail(place) /\ place = "nowhere" /\ type # "other"
    /\ text' = Opening(AfterColon, type)
    /\ depth' = IF type = "object" THEN depth + 1 ELSE depth
    /\ needComma' = FALSE
    /\ blocks' = Append(blocks, type)
    /\ UNCHANGED <<err, damaged>>

\* nmjson_writer_begin_n: the type is looked at when comma and key are written.
Begin(type, place, torn) ==
    /\ Len(blocks) < MaxDepth /\ Len(text.open) < MaxDepth
    /\ blocks = <<>> => text = NoText(FALSE)
    /\ CanFail(place)
    /\ \/ /\ place = "nowhere" /\ type # "other"
          /\ text' = Opening(AfterColon, type)
          /\ depth' = depth + 1
          /\ needComma' = FALSE
          /\ blocks' = Append(blocks, type)
          /\ UNCHANGED <<err, damaged>>
       \/ place = "nowhere" /\ type = "other" /\ text' = AfterColon /\ Failed("inval")
       \/ /\ place # "nowhere"
          /\ Fails(place, torn /\ place = "key")
          /\ Failed("write")

\* Mutant: the depth is counted down when the bracket has been written.
EndWhenWritten(type, place) ==
    /\ blocks # <<>> /\ type = Last(blocks)
    /\ blocks' = Front(blocks)
    /\ IF place = "nowhere"
       THEN /\ text' = Closing(text, type)
            /\ depth' = depth - 1
            /\ needComma' = TRUE
            /\ UNCHANGED <<err, damaged>>
       ELSE /\ err' = "write"
            /\ damaged' = TRUE
            /\ UNCHANGED <<depth, needComma, text>>

\* nmjson_writer_end.  The depth goes down before anything is written, so that
\* a failing end leaves its block too.
End(type, place) ==
    /\ blocks # <<>>
    /\ \/ type = "other" /\ UNCHANGED text /\ Failed("inval")
       \/ /\ type = Last(blocks)
          /\ depth' = depth - 1
          /\ blocks' = Front(blocks)
          /\ \/ /\ place = "nowhere"
                /\ text' = Closing(text, type)
                /\ needComma' = TRUE
                /\ UNCHANGED <<err, damaged>>
             \/ /\ place = "token"
                /\ err' = "write"
                /\ damaged' = TRUE
                /\ UNCHANGED <<needComma, text>>

\* nmjson_writer_init_cb, _fp, _fd
Init ==
    /\ depth = 0 /\ needComma = FALSE /\ err = "none"
    /\ text = NoText(FALSE) /\ blocks = <<>> /\ damaged = FALSE

\* A new text with the same structure, once the caller has left all blocks.
Reinit ==
    /\ blocks = <<>>
    /\ depth' = 0 /\ needComma' = FALSE /\ err' = "none"
    /\ text' = NoText(FALSE) /\ blocks' = <<>> /\ damaged' = FALSE

Next ==
    \/ \E place \in Places, torn \in BOOLEAN :
          \/ Put(place, torn)
          \/ \E value \in {"finite", "nonfinite"} : PutFloat(value, place, torn)
          \/ \E type \in Types : Begin(type, place, torn)
    \/ \E type \in Types, place \in {"token", "nowhere"} : End(type, place)
    \/ Reinit

Spec == Init /\ [][Next]_vars

-----------------------------------------------------------------------------
(* Properties. *)

\* Whatever fails, the depth is the number of blocks the caller is in: a begin
\* that failed is not counted and an end that failed is.
DepthIsBlocks == depth = Len(blocks)

\* As long as every call that failed had written nothing yet, the text is JSON,
\* its open containers are the caller's blocks and a comma is due exactly where
\* the grammar admits one: a begin or a put that failed so may be repeated.
WrittenIsJson ==
    ~damaged =>
        /\ text.open = blocks
        /\ text.verdict = IF blocks = <<>> /\ text # NoText(FALSE) THEN "accepted" ELSE "reading"
        /\ text.due = IF needComma THEN "sep"
                      ELSE IF blocks = <<>> THEN "value" ELSE "first"

\* "<0: failure" (nmjson_writer_put_.c:519-520): as long as no call has failed,
\* and so the writer has no error, what was written is JSON.
SilentMeansJson == err = "none" => text.verdict # "rejected"
=============================================================================
