------------------------------ MODULE StrictJSON ------------------------------
(* The two readers of untrusted JSON: readBoundedJSON (src/json.ts) reads the *)
(* body of an answer of the gateway chunk by chunk, the release tooling       *)
(* (scripts/npm-release-evidence.mjs) reads a file that may change meanwhile. *)
(* Both scan what they read by recursive descent before JSON.parse sees it.   *)
(*                                                                            *)
(* A text is a sequence of tokens, each counted as one byte. A string, number *)
(* or literal is one token: what its scan accepts is told apart by the token. *)
(* The descent is a machine that takes one token per step, with the calls it  *)
(* is inside on a stack.                                                      *)
EXTENDS Integers, FiniteSets, SequencesExt

CONSTANTS
  Samples,      \* the documents a writer starts from
  Edits,        \* how many tokens it drops, inserts or replaces
  MaxDepth,     \* MAXIMUM_JSON_DEPTH
  MaxBytes      \* maximumBytes

VARIABLES
  reader,       \* "response" or "file"
  text,         \* the body, or the present content of the file
  declared,     \* Content-Length, or the size fstat returned
  bytes,        \* what has been read so far
  outcome,      \* "writing", "reading", "scanning", "parsed" or "refused"
  edits,        \* edits made before the reader starts
  disturbed,    \* the file changed, or the stream failed, under the reader
  cursor,       \* the offset the scan has reached in bytes
  frames,       \* the calls of scanObject and scanArray it is inside
  awaits        \* what the scan stands before

scanVars == <<cursor, frames, awaits>>
jsonVars == <<reader, text, declared, bytes, outcome, edits, disturbed, scanVars>>

-----------------------------------------------------------------------------
\* Tokens. "a_escaped" spells the name "a" with an escape; "big" is a number that
\* no safe integer represents; "broken" is a string, number or literal that its
\* scan or the UTF-8 decoder rejects: a control character, a leading zero, "tru".
Strings  == {"a", "a_escaped", "b"}
Scalars  == Strings \cup {"1", "big"}
Opening  == {"lbrace", "lbracket"}
Closing  == {"rbrace", "rbracket"}
Tokens   == Scalars \cup Opening \cup Closing \cup {"comma", "colon", "space", "broken"}

ASSUME LimitsAssumption == MaxDepth \in Nat /\ MaxBytes \in Nat \ {0} /\ Edits \in Nat
ASSUME SamplesAssumption == Samples \subseteq Seq(Tokens)

\* JSON.parse of the token of a name.
Decoded(name) == IF name = "a_escaped" THEN "a" ELSE name

At(t, i) == IF i \in 1 .. Len(t) THEN t[i] ELSE "end"

\* The first position from i on that is not white space.
Skip(t, i) == IF i > Len(t) THEN i ELSE Min({j \in i .. Len(t) + 1 : At(t, j) # "space"})

-----------------------------------------------------------------------------
jsonInit ==
  /\ reader \in {"response", "file"}
  /\ text \in Samples
  /\ declared = -1 /\ bytes = <<>> /\ outcome = "writing"
  /\ edits = 0 /\ disturbed = FALSE
  /\ cursor = 1 /\ frames = <<>> /\ awaits = "value"

\* What one edit makes of a text.
Edited(t) ==
  {RemoveAt(t, i) : i \in 1 .. Len(t)}
    \cup {InsertAt(t, i, x) : i \in 1 .. Len(t) + 1, x \in Tokens}
    \cup {ReplaceAt(t, i, x) : i \in 1 .. Len(t), x \in Tokens}

\* Whoever produces the document: a gateway or an intermediary, a registry, a
\* tool. A file may still change while it is read.
Write ==
  /\ edits < Edits
  /\ outcome = "writing" \/ (outcome = "reading" /\ reader = "file")
  /\ text' \in Edited(text)
  /\ edits' = edits + 1
  /\ disturbed' = (outcome = "reading")
  /\ UNCHANGED <<reader, declared, bytes, outcome, scanVars>>

\* Read on, scan what has been read, or end with an outcome.
Into(o) == outcome' = o /\ UNCHANGED <<reader, text, edits>>

\* readBoundedJSON: the header is optional (-1) and need not tell the truth.
Respond ==
  /\ reader = "response" /\ outcome = "writing"
  /\ \E header \in {-1, MaxBytes, MaxBytes + 1} :
       /\ declared' = header
       /\ Into(IF header > MaxBytes THEN "refused" ELSE "reading")
  /\ UNCHANGED <<bytes, disturbed, scanVars>>

\* The limit is taken for each chunk by itself.
ChunkExceeds(n) == n > MaxBytes

\* The size of a chunk against what is left of the limit.
Exceeds(n) == n > MaxBytes - Len(bytes)

Chunk ==
  /\ reader = "response" /\ outcome = "reading"
  /\ \E n \in 1 .. Len(text) - Len(bytes) :
       IF Exceeds(n)
       THEN Into("refused") /\ UNCHANGED bytes
       ELSE Into("reading") /\ bytes' = SubSeq(text, 1, Len(bytes) + n)
  /\ UNCHANGED <<declared, disturbed, scanVars>>

\* validate: leading white space is skipped, then a value is scanned.
BodyEnds ==
  /\ reader = "response" /\ outcome = "reading" /\ Len(bytes) = Len(text)
  /\ Into("scanning")
  /\ cursor' = Skip(bytes, 1)
  /\ UNCHANGED <<declared, bytes, disturbed, frames, awaits>>

StreamFails ==
  /\ reader = "response" /\ outcome = "reading"
  /\ Into("refused") /\ disturbed' = TRUE
  /\ UNCHANGED <<declared, bytes, scanVars>>

\* readBoundedFileSync: the size is taken from the open descriptor.
Open ==
  /\ reader = "file" /\ outcome = "writing"
  /\ declared' = Len(text)
  /\ Into(IF Len(text) \in 1 .. MaxBytes THEN "reading" ELSE "refused")
  /\ UNCHANGED <<bytes, disturbed, scanVars>>

\* readSync at the offset reached; it returns 0 at the end of a file that has
\* become shorter.
ReadSync ==
  /\ reader = "file" /\ outcome = "reading" /\ Len(bytes) < declared
  /\ IF Len(text) <= Len(bytes)
     THEN Into("refused") /\ UNCHANGED bytes
     ELSE \E end \in Len(bytes) + 1 .. Min({declared, Len(text)}) :
            Into("reading") /\ bytes' = bytes \o SubSeq(text, Len(bytes) + 1, end)
  /\ UNCHANGED <<declared, disturbed, scanVars>>

\* One more byte is asked for: a file that has grown is refused. Then
\* scanStrictJSON.
FileEnds ==
  /\ reader = "file" /\ outcome = "reading" /\ Len(bytes) = declared
  /\ Into(IF Len(text) <= declared THEN "scanning" ELSE "refused")
  /\ UNCHANGED <<declared, bytes, disturbed, scanVars>>

-----------------------------------------------------------------------------
(* StrictJSONScanner of src/json.ts and scanStrictJSON of the release tooling.*)
(* They differ in where they skip white space (parseValue does it itself, the *)
(* callers of scanValue do it for it), and the second also refuses a number   *)
(* that is not finite or, an integer, not safe.                               *)

\* The bracket of the innermost call.
Bracket == IF frames = <<>> THEN "none" ELSE bytes[Last(frames).from]
Closes  == IF Bracket = "lbrace" THEN "rbrace" ELSE "rbracket"
Element == IF Bracket = "lbrace" THEN "name" ELSE "value"

\* Scan on from a position, in the calls of a stack; or throw.
Awaits(what, i, calls) ==
  /\ awaits' = what /\ cursor' = i /\ frames' = calls
  /\ UNCHANGED <<reader, text, declared, bytes, outcome, edits, disturbed>>
Finish(o) == Into(o) /\ UNCHANGED <<declared, bytes, disturbed, scanVars>>

\* scanValue and parseValue; a bracket calls scanObject or scanArray, which
\* asserts the depth before it takes it.
ScanValue ==
  LET i == IF reader = "file" THEN Skip(bytes, cursor) ELSE cursor
  IN  /\ outcome = "scanning" /\ awaits = "value"
      /\ CASE At(bytes, i) \in Scalars /\ (At(bytes, i) = "big" => reader = "response") ->
                Awaits("after", i + 1, frames)
           [] At(bytes, i) \in Opening /\ Len(frames) < MaxDepth ->
                Awaits("first", Skip(bytes, i + 1), Append(frames, [from |-> i, names |-> {}]))
           [] OTHER -> Finish("refused")

\* An object or array may end at once.
ScanFirst ==
  /\ outcome = "scanning" /\ awaits = "first"
  /\ IF At(bytes, cursor) = Closes
     THEN Awaits("after", cursor + 1, Front(frames))
     ELSE Awaits(Element, cursor, frames)

\* A string token is decoded whole (scanString), so a name is compared as
\* JSON.parse would read it.
ScanName ==
  LET name == Decoded(At(bytes, cursor))
  IN  /\ outcome = "scanning" /\ awaits = "name"
      /\ IF At(bytes, cursor) \in Strings /\ name \notin Last(frames).names
         THEN Awaits("separator", Skip(bytes, cursor + 1),
                     [frames EXCEPT ![Len(frames)].names = @ \cup {name}])
         ELSE Finish("refused")

ScanColon ==
  /\ outcome = "scanning" /\ awaits = "separator"
  /\ IF At(bytes, cursor) # "colon" THEN Finish("refused")
     ELSE Awaits("value", IF reader = "file" THEN cursor + 1 ELSE Skip(bytes, cursor + 1), frames)

\* After a value: the caller takes a closing bracket and returns, or a comma.
ScanEnd ==
  LET i == Skip(bytes, cursor)
  IN  /\ outcome = "scanning" /\ awaits = "after" /\ frames # <<>>
      /\ CASE At(bytes, i) = Closes -> Awaits("after", i + 1, Front(frames))
           [] At(bytes, i) = "comma" -> Awaits(Element, Skip(bytes, i + 1), frames)
           [] OTHER -> Finish("refused")

\* After the outermost value: nothing may follow it.
ScanEndOfText ==
  /\ outcome = "scanning" /\ awaits = "after" /\ frames = <<>>
  /\ Finish(IF Skip(bytes, cursor) = Len(bytes) + 1 THEN "parsed" ELSE "refused")

jsonNext ==
  \/ Write
  \/ Respond \/ Chunk \/ BodyEnds \/ StreamFails
  \/ Open \/ ReadSync \/ FileEnds
  \/ ScanValue \/ ScanFirst \/ ScanName \/ ScanColon \/ ScanEnd \/ ScanEndOfText

jsonSpec == jsonInit /\ [][jsonNext]_jsonVars

-----------------------------------------------------------------------------
(* What strict JSON is, without a scan: brackets that match, a rule for each *)
(* token and the one before it, and names that differ within one object.      *)

\* How many brackets are open before token i.
Depth(t, i) == Cardinality({j \in 1 .. i - 1 : t[j] \in Opening})
                 - Cardinality({j \in 1 .. i - 1 : t[j] \in Closing})

\* The position of the bracket token i stands in, or 0.
Around(t, i) ==
  LET open == {j \in 1 .. i - 1 : t[j] \in Opening /\ \A k \in j + 1 .. i : Depth(t, k) > Depth(t, j)}
  IN  IF open = {} THEN 0 ELSE Max(open)

\* The position of the token before i that is not white space, or 0.
Before(t, i) ==
  LET before == {j \in 1 .. i - 1 : t[j] # "space"} IN IF before = {} THEN 0 ELSE Max(before)

Within(t, i, bracket) == Around(t, i) # 0 /\ t[Around(t, i)] = bracket

IsName(t, i)    == t[i] \in Strings /\ Within(t, i, "lbrace") /\ t[Before(t, i)] \in {"lbrace", "comma"}
IsValue(t, i)   == t[i] \in Scalars /\ ~IsName(t, i)
Begins(t, i)    == t[i] \in Opening \/ IsValue(t, i)
Completes(t, i) == t[i] \in Closing \/ IsValue(t, i)

\* The rule for token i after token p.
Follows(t, p, i) ==
  \/ t[p] = "lbrace"   /\ (t[i] = "rbrace" \/ IsName(t, i))
  \/ t[p] = "lbracket" /\ (t[i] = "rbracket" \/ Begins(t, i))
  \/ t[p] = "colon"    /\ Begins(t, i)
  \/ t[p] = "comma"    /\ Within(t, p, "lbrace") /\ IsName(t, i)
  \/ t[p] = "comma"    /\ ~Within(t, p, "lbrace") /\ Begins(t, i)
  \/ IsName(t, p)      /\ t[i] = "colon"
  \/ Completes(t, p)   /\ Around(t, i) # 0 /\ t[i] \in Closing \cup {"comma"}

\* Token i, in the text before it: its bracket, its neighbour, the depth, its name.
Fits(t, i) ==
  /\ t[i] = "rbrace" => Within(t, i, "lbrace")
  /\ t[i] = "rbracket" => Within(t, i, "lbracket")
  /\ Before(t, i) = 0 => Begins(t, i)
  /\ Before(t, i) # 0 => Follows(t, Before(t, i), i)
  /\ Depth(t, i + 1) <= MaxDepth
  /\ IsName(t, i) => \A j \in 1 .. i - 1 :
       IsName(t, j) /\ Around(t, j) = Around(t, i) => Decoded(t[j]) # Decoded(t[i])

Strict(t) ==
  /\ \A i \in 1 .. Len(t) : t[i] # "space" => Fits(t, i)
  /\ Depth(t, Len(t) + 1) = 0
  /\ Before(t, Len(t) + 1) # 0 /\ Completes(t, Before(t, Len(t) + 1))

\* Of an answer, exactly the strict documents within the limit are parsed,
\* however it is cut into chunks and whatever its header declares; a stream
\* that fails is never parsed.
AnswersReadStrictly ==
  reader = "response" /\ outcome \in {"parsed", "refused"} =>
    (outcome = "parsed" <=>
       ~disturbed /\ declared <= MaxBytes /\ Len(text) <= MaxBytes /\ Strict(text))

\* Of a file, exactly the strict documents within the limit and without an
\* unsafe number are parsed when nobody touches it; when somebody does, what is
\* parsed is still such a document, although it may never have been the file's.
FilesReadStrictly ==
  LET Safe(t) == Len(t) \in 1 .. MaxBytes /\ Strict(t) /\ \A i \in 1 .. Len(t) : t[i] # "big"
  IN  reader = "file" =>
        /\ outcome = "parsed" => Safe(bytes)
        /\ outcome \in {"parsed", "refused"} /\ ~disturbed => (outcome = "parsed" <=> Safe(text))

\* Both readers parse exactly the strict documents within their limits.
ReadsStrictly == AnswersReadStrictly /\ FilesReadStrictly
=============================================================================
