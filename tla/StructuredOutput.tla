-------------------------- MODULE StructuredOutput --------------------------
(***************************************************************************)
(* Decoding of structured output (structured_output.go): the payload of a  *)
(* _meta block, or else the JSON found in the assistant's text.  A text is *)
(* a sequence of the characters the search tells apart: brackets, quote,   *)
(* backslash, newline, space, the fence, its tag "json", and "x" for       *)
(* any other run.  encoding/json is external: it accepts a bracketed value *)
(* whose brackets and quotes nest.                                         *)
(***************************************************************************)
EXTENDS Integers, Sequences, FiniteSetsExt

Characters == {"{", "}", "[", "]", "quote", "backslash", "newline", "space", "fence", "json", "x"}

\* Where sep occurs in text.
Occurs(text, sep) ==
  {i \in 1..(Len(text) - Len(sep) + 1) : SubSeq(text, i, i + Len(sep) - 1) = sep}

TrimSpace(s) ==
  LET ink == {i \in 1..Len(s) : s[i] \notin {"space", "newline"}}
  IN IF ink = {} THEN <<>> ELSE SubSeq(s, Min(ink), Max(ink))

\* Mutant: what follows the fence on its line is kept.
extractFencedWithTag(text, opener) ==
  LET o     == Occurs(text, opener)
      lines == SubSeq(text, Min(o) + Len(opener), Len(text))
      ends  == Occurs(lines, <<"fence">>)
  IN IF o = {} \/ ends = {} THEN <<>> ELSE TrimSpace(SubSeq(lines, 1, Min(ends) - 1))

\* The rest of the opener's line is dropped; "" without a closing fence.
extractFenced(text, opener) ==
  LET o     == Occurs(text, opener)
      rest  == SubSeq(text, Min(o) + Len(opener), Len(text))
      nl    == Occurs(rest, <<"newline">>)
      lines == IF nl = {} THEN rest ELSE SubSeq(rest, Min(nl) + 1, Len(rest))
      ends  == Occurs(lines, <<"fence">>)
  IN IF o = {} \/ ends = {} THEN <<>> ELSE TrimSpace(SubSeq(lines, 1, Min(ends) - 1))

Opens     == {"{", "["}
Closer(c) == IF c = "[" THEN "]" ELSE "}"

\* Mutant: brackets count inside strings too.
ScanBlind(st, c, opening, i) ==
  IF st.end # 0 \/ c \notin {opening, Closer(opening)} THEN st
  ELSE IF c = opening THEN [st EXCEPT !.depth = @ + 1]
  ELSE [st EXCEPT !.depth = @ - 1, !.end = IF st.depth = 1 THEN i ELSE 0]

\* One character c of the scan from an opening bracket; end is set once.
Scan(st, c, opening, i) ==
  IF st.end # 0 THEN st
  ELSE IF st.escape THEN [st EXCEPT !.escape = FALSE]
  ELSE IF c = "backslash" THEN [st EXCEPT !.escape = TRUE]
  ELSE IF c = "quote" THEN [st EXCEPT !.inString = ~@]
  ELSE IF st.inString \/ c \notin {opening, Closer(opening)} THEN st
  ELSE IF c = opening THEN [st EXCEPT !.depth = @ + 1]
  ELSE [st EXCEPT !.depth = @ - 1, !.end = IF st.depth = 1 THEN i ELSE 0]

\* The loop from the bracket at first to the end of the text.
Scanned(text, first) ==
  LET state[i \in (first - 1)..Len(text)] ==
        IF i < first THEN [depth |-> 0, inString |-> FALSE, escape |-> FALSE, end |-> 0]
                     ELSE Scan(state[i - 1], text[i], text[first], i)
  IN state

\* From the first bracket to the one that balances it.
extractBracedSpan(text) ==
  LET brackets == {i \in 1..Len(text) : text[i] \in Opens}
      first == Min(brackets)
      end == Scanned(text, first)[Len(text)].end
  IN IF brackets = {} \/ end = 0 THEN <<>> ELSE SubSeq(text, first, end)

extractJSONCandidate(text) ==
  LET tagged == extractFenced(text, <<"fence", "json">>)
      plain  == extractFenced(text, <<"fence">>)
  IN IF tagged # <<>> THEN tagged ELSE IF plain # <<>> THEN plain
     ELSE extractBracedSpan(text)

\* json.Unmarshal: a stack of the brackets that are open, "quote" for a string.
Top(s) == s[Len(s)]
Pop(s) == SubSeq(s, 1, Len(s) - 1)
Bad    == <<"bad">>

Push(s, c) ==
  IF s = Bad THEN s
  ELSE IF s # <<>> /\ Top(s) = "backslash" THEN Pop(s)
  ELSE IF s # <<>> /\ Top(s) = "quote"
       THEN IF c = "quote" THEN Pop(s) ELSE IF c = "backslash" THEN Append(s, c) ELSE s
  ELSE IF c \in Opens \cup {"quote"} THEN Append(s, c)
  ELSE IF c \in {"}", "]"} THEN IF s # <<>> /\ Closer(Top(s)) = c THEN Pop(s) ELSE Bad
  ELSE IF c = "backslash" \/ s = <<>> THEN Bad ELSE s

Parsed(raw) ==
  LET stack[i \in 0..Len(raw)] == IF i = 0 THEN <<>> ELSE Push(stack[i - 1], raw[i])
  IN stack

Unmarshals(raw) ==
  /\ raw # <<>> /\ raw[1] \in Opens
  /\ \A i \in 1..(Len(raw) - 1) : Parsed(raw)[i] # <<>>
  /\ Parsed(raw)[Len(raw)] = <<>>

Missing == [out |-> "missing", opt |-> <<>>]

\* convertStructured: the payload of a _meta block has the type, or has not.
convertStructured(block) == [out |-> IF block = "fits" THEN "meta" ELSE "mismatch", opt |-> <<>>]

\* Mutant: a notification without a _meta block ends the search.
decodeFromFirst(metas) == convertStructured(metas[1])

\* The first notification with a payload decides, even if it does not convert.
decodeFromNotifications(metas) ==
  convertStructured(metas[Min({i \in 1..Len(metas) : metas[i] # "none"})])

Carries(metas) == \E i \in 1..Len(metas) : metas[i] # "none"

\* DecodeStructuredOutput of a QueryResult, DecodePromptResult of a PromptResult.
Decode(from, metas, text) ==
  LET raw == extractJSONCandidate(text)
  IN IF Carries(metas) THEN decodeFromNotifications(metas)
     ELSE IF from = "query" /\ raw # <<>> /\ Unmarshals(raw)
          THEN [out |-> "decoded", opt |-> raw]
     ELSE Missing

-----------------------------------------------------------------------------
(* What the text fallback promises, with no reference to how it searches.  *)

\* Prose around a value, not fenced: at most one fence, no bracket before it.
Bare(text, i) ==
  /\ \A k, m \in 1..Len(text) : text[k] = "fence" /\ text[m] = "fence" => k = m
  /\ \A k \in 1..(i - 1) : text[k] \notin Opens

\* A fence that opens the block to decode: the first with the tag json, or the
\* first of all when none has it.
OpensBlock(text, o) ==
  LET Tagged(k) == text[k] = "fence" /\ k < Len(text) /\ text[k + 1] = "json"
  IN \/ Tagged(o) /\ \A k \in 1..(o - 1) : ~Tagged(k)
     \/ /\ text[o] = "fence" /\ \A k \in 1..(o - 1) : text[k] # "fence"
        /\ \A k \in 1..Len(text) : ~Tagged(k)

\* The span i..j, up to blanks, is the block: it starts on the line after the
\* opening fence and ends at the next fence.
FillsBlock(text, i, j) ==
  \E n \in 1..(i - 1), c \in (j + 1)..Len(text) :
    /\ text[n] = "newline" /\ text[c] = "fence"
    /\ \A k \in (n + 1)..(c - 1) : text[k] # "fence"
    /\ \A k \in (n + 1)..(i - 1) \cup (j + 1)..(c - 1) : text[k] \in {"space", "newline"}
    /\ \E o \in 1..(n - 1) : /\ OpensBlock(text, o)
                            /\ \A k \in o..(n - 1) : text[k] # "newline"

\* What is decoded is a value of the text, and a value of the text is decoded
\* whole when prose or a fence is around it, whatever its strings hold.
TextDecoded(text, a) ==
  /\ \/ a = Missing
     \/ \E i, j \in 1..Len(text) : a = [out |-> "decoded", opt |-> SubSeq(text, i, j)]
                                  /\ Unmarshals(SubSeq(text, i, j))
  /\ \A i, j \in 1..Len(text) :
       Unmarshals(SubSeq(text, i, j)) /\ (Bare(text, i) \/ FillsBlock(text, i, j)) =>
         a = [out |-> "decoded", opt |-> SubSeq(text, i, j)]
=============================================================================
