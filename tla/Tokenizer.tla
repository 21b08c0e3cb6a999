------------------------------ MODULE Tokenizer ------------------------------
(***************************************************************************)
(* tokenize_text of backend/src/tokenizer.c: one pass over a text with a   *)
(* buffer of limited size and a counter of word positions that the fields  *)
(* of a document share.                                                    *)
(*                                                                         *)
(* A text is a sequence of characters of any kind; seps are the places of  *)
(* white space and punctuation in it.  Hyphens, apostrophes and the bytes  *)
(* of well-formed UTF-8 go into the buffer like letters.  What             *)
(* normalize_token makes of a word is left out: it shortens no word below  *)
(* MinLen.                                                                 *)
(***************************************************************************)
EXTENDS Integers, SequencesExt

CONSTANTS
    MinLen, MaxLen, \* CWEB_MIN_TOKEN_LEN, CWEB_MAX_TOKEN_LEN
    BufSize         \* sizeof(token_buf)

ASSUME BufferHoldsToken ==
    /\ MinLen \in Nat \ {0} /\ MaxLen \in Nat /\ MinLen <= MaxLen
    /\ BufSize \in Nat /\ MaxLen + 1 < BufSize

Idle(pos) == [buf |-> <<>>, pos |-> pos, words |-> <<>>]

Fits(n) == n >= MinLen /\ n <= MaxLen

FlushKeptOnly(st) ==                     \* a plausible bug: dropped words take no position
    IF Fits(Len(st.buf))
    THEN [buf |-> <<>>, pos |-> st.pos + 1,
          words |-> Append(st.words, [pos |-> st.pos, word |-> st.buf])]
    ELSE [st EXCEPT !.buf = <<>>]

\* The end of a word: it is kept if its length allows, and takes a position anyway.
Flush(st) ==
    IF st.buf = <<>> THEN st
    ELSE [buf |-> <<>>, pos |-> st.pos + 1,
          words |-> IF Fits(Len(st.buf))
                    THEN Append(st.words, [pos |-> st.pos, word |-> st.buf])
                    ELSE st.words]

Room(buf) == Len(buf) + 1 < BufSize

\* A character goes into the buffer while there is room.
Push(st, c) ==
    IF Room(st.buf) THEN [buf |-> Append(st.buf, c), pos |-> st.pos, words |-> st.words]
    ELSE st

\* The words of a text that are kept, and the next position.
Tokenized(text, seps, pos) ==
    LET after[i \in 0 .. Len(text)] ==
            IF i = 0 THEN Idle(pos)
            ELSE IF i \in seps THEN Flush(after[i - 1]) ELSE Push(after[i - 1], text[i])
    IN  Flush(after[Len(text)])

-----------------------------------------------------------------------------

\* For reference: the words of a text are its longest stretches without seps.
WordPlaces(text, seps) ==
    {w \in (DOMAIN text) \X (DOMAIN text) :
        /\ w[1] <= w[2] /\ seps \cap (w[1] .. w[2]) = {}
        /\ w[1] = 1 \/ w[1] - 1 \in seps
        /\ w[2] = Len(text) \/ w[2] + 1 \in seps}
=============================================================================
