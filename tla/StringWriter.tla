---------------------------- MODULE StringWriter ----------------------------
(***************************************************************************)
(* How a string is written: by nmjson_writer                               *)
(* (src/writer/nmjson_writer_put_.c), as the sequence of write_ calls with *)
(* the bytes each hands over, and by the printer of token trees            *)
(* (src/token/nmjson_token_fout.c).                                        *)
(***************************************************************************)
EXTENDS Scanners

\* hexstr_from_bin_, for both bytes of a code of 16 bits.
HexDigit(v) == IF v < 10 THEN 48 + v ELSE 55 + v
Hex(code, digits) == [i \in 1 .. digits |-> HexDigit((code \div 16 ^ (digits - i)) % 16)]

\* encode_u_: one escape, or two for a surrogate pair.
EncodeU(code) ==
    LET unit(c) == <<Backslash, Ord["u"]>> \o Hex(c, 4)
        rest == code - 65536
    IN  IF code < 65536 THEN unit(code)
        ELSE unit(55296 + (rest \div 1024)) \o unit(56320 + (rest % 1024))

\* What is written for the byte c, and how many bytes that covers; no text when
\* the byte is written as it is.  u is the code that begins with c.
Escaped(c, raw, u, malformed) ==
    LET short == (8 :> "b") @@ (12 :> "f") @@ (LF :> "n") @@ (CR :> "r") @@ (9 :> "t")
        escape(text, covers) == [text |-> text, covers |-> covers]
    IN  CASE c \in {Quote, Backslash} -> escape(<<Backslash, c>>, 1)
          [] c \in DOMAIN short -> escape(<<Backslash, Ord[short[c]]>>, 1)
          [] c \in Controls \ DOMAIN short -> escape(EncodeU(c), 1)
          [] c >= 192 /\ ~raw -> IF u = Malformed THEN escape(malformed, 1)
                                 ELSE escape(EncodeU(u.code), u.len)
          [] OTHER -> escape(<<>>, 1)

Hash == 35

\* write_esc_: what needs no escape, from `start` on, goes out together.
WriteEsc(s, raw) ==
    LET calls[start \in 1 .. Len(s) + 1, i \in 1 .. Len(s) + 1] ==
            IF i > Len(s) THEN <<SubSeq(s, start, i - 1)>>
            ELSE LET e == Escaped(s[i], raw, StrnToUnicode(s, i), <<Hash>> \o Hex(s[i], 2))
                 IN  IF e.text = <<>> THEN calls[start, i + 1]
                     ELSE <<SubSeq(s, start, i - 1), e.text>>
                          \o calls[i + e.covers, i + e.covers]
    IN  calls[1, 1]

\* write_str_
WriteStr(s, raw) == <<<<Quote>>>> \o WriteEsc(s, raw) \o <<<<Quote>>>>

\* sout_encode_str_ for the dialect d, between quotes: the code at i is read up to
\* the terminator of s, and a malformed byte is "#195" or, where \xHH exists, \xc3.
SoutStr(s, raw, d) ==
    LET lower(v) == IF v < 10 THEN 48 + v ELSE 87 + v
        malformed(b) ==
            IF HasHexaEscape(d) THEN <<Backslash, Ord["x"], lower(b \div 16), lower(b % 16)>>
            ELSE <<Hash, 48 + (b \div 100), 48 + ((b \div 10) % 10), 48 + (b % 10)>>
        text[i \in 1 .. Len(s) + 1] ==
            IF i > Len(s) THEN <<>>
            ELSE LET e == Escaped(s[i], raw, StrToUnicode(s, i), malformed(s[i]))
                 IN  (IF e.text = <<>> THEN <<s[i]>> ELSE e.text) \o text[i + e.covers]
    IN  <<Quote>> \o text[1] \o <<Quote>>
=============================================================================
