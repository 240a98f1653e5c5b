------------------------------- MODULE Config -------------------------------
(***************************************************************************)
(* Reading the configuration file (bootloader/config.c): one turn of       *)
(* BlLoadConfigurationFromFile's loop per line.  The indices of a line are *)
(* those of the code, relative to buffer and of a word's width.            *)
(***************************************************************************)
EXTENDS Integers, Sequences, FiniteSets, SequencesExt

CONSTANTS
  Characters, Whitespace, Newline, Colon, Hash,  \* the alphabet
  Options,    \* the names in BiOptions, as strings of characters
  Required,   \* those with BI_REQUIRED
  SizeMax,    \* SIZE_MAX
  Files       \* the possible contents of the file

\* An assumption of the module that instantiates this one (Boot).
ConfigAssumption ==
  /\ Whitespace \subseteq Characters
  /\ {Newline, Colon, Hash} \subseteq Characters \ Whitespace
  /\ Newline \notin {Colon, Hash} /\ Colon # Hash
  /\ Required \subseteq Options /\ Options \subseteq Seq(Characters)
  /\ SizeMax \in Nat
  /\ \A o \in Options : o # <<>> /\ {Newline, Colon, Hash} \cap Range(o) = {}
  /\ \A o \in Options : Head(o) \notin Whitespace
  /\ \A f \in Files : f \in Seq(Characters) /\ Len(f) < SizeMax

VARIABLES
  file,    \* the content of the file
  buffer,  \* how much of it is behind the loop
  line,    \* the number of the line, for messages
  values,  \* the values of the options provided
  pc       \* "line", "done" or "crashed"

vars == <<file, buffer, line, values, pc>>

Text == SubSeq(file, buffer + 1, Len(file))

Init ==
  /\ file \in Files
  /\ buffer = 0
  /\ line = 1
  /\ values = [o \in {} |-> <<>>]
  /\ pc = "line"

---------------------------------------------------------------------------
(* A line.                                                                 *)

SkipWhitespace(text) ==
  IF Range(text) \subseteq Whitespace THEN <<>>
  ELSE SubSeq(text, SelectInSeq(text, LAMBDA c : c \notin Whitespace), Len(text))

\* The index of the first c before some other index, or none.
Find(text, c, before) ==
  LET k == SelectInSeq(SubSeq(text, 1, before), LAMBDA x : x = c)
  IN IF k = 0 THEN SizeMax ELSE k - 1

lineEnd(text) == Min({Find(text, Newline, Len(text)), Len(text)})

nameEnd(text) == Find(text, Colon, lineEnd(text))

comment(text) == Find(text, Hash, lineEnd(text))

valueLimit(text) == Min({comment(text), lineEnd(text)})

\* The value's bounds, without the whitespace around it.
valueStart(text) ==
  LET inside == {k \in (nameEnd(text) + 1)..(valueLimit(text) - 1) :
                   text[k + 1] \notin Whitespace}
  IN IF inside = {} THEN Max({nameEnd(text) + 1, valueLimit(text)})
     ELSE Min(inside)

valueEnd(text) ==
  LET inside == {k \in valueStart(text)..(valueLimit(text) - 1) :
                   text[k + 1] \notin Whitespace}
  IN IF inside = {} THEN valueLimit(text) ELSE Max(inside) + 1

\* valueEnd - valueStart, as a size_t.
valueLength(text) ==
  (valueEnd(text) - valueStart(text)) % (SizeMax + 1)

Name(text) == SubSeq(text, 1, nameEnd(text))

Value(text) ==
  SubSeq(text, valueStart(text) + 1, valueStart(text) + valueLength(text))

Ignored(text) == comment(text) = 0 \/ lineEnd(text) = 0

NextLine(text) ==
  /\ buffer' = Len(file) - Len(text) + Min({lineEnd(text) + 1, Len(text)})
  /\ line' = line + 1

IsOption(text) ==
  ~Ignored(text) /\ nameEnd(text) # SizeMax /\ Name(text) \in Options

\* A line without an option, or with one BiHandleOption does not know.
Skip ==
  LET text == SkipWhitespace(Text)
  IN /\ pc = "line"
     /\ Text # <<>>
     /\ Ignored(text) \/ (nameEnd(text) # SizeMax /\ ~IsOption(text))
     /\ NextLine(text)
     /\ UNCHANGED <<file, values, pc>>

\* Mutant: an option that was provided is not changed again.
HandleOptionOnce ==
  LET text == SkipWhitespace(Text)
  IN /\ pc = "line"
     /\ Text # <<>>
     /\ IsOption(text)
     /\ values' = [o \in DOMAIN values \union {Name(text)} |->
                     IF o \in DOMAIN values THEN values[o] ELSE Value(text)]
     /\ NextLine(text)
     /\ UNCHANGED <<file, pc>>

\* BiHandleOption, for one it knows.
HandleOption ==
  LET text == SkipWhitespace(Text)
  IN /\ pc = "line"
     /\ Text # <<>>
     /\ IsOption(text)
     /\ values' = [o \in DOMAIN values \union {Name(text)} |->
                     IF o = Name(text) THEN Value(text) ELSE values[o]]
     /\ NextLine(text)
     /\ UNCHANGED <<file, pc>>

InvalidSyntax ==
  LET text == SkipWhitespace(Text)
  IN /\ pc = "line"
     /\ Text # <<>>
     /\ ~Ignored(text) /\ nameEnd(text) = SizeMax
     /\ pc' = "crashed"
     /\ UNCHANGED <<file, buffer, line, values>>

\* BiValidateOptions.
Validate ==
  /\ pc = "line"
  /\ Text = <<>>
  /\ pc' = IF Required \subseteq DOMAIN values THEN "done" ELSE "crashed"
  /\ UNCHANGED <<file, buffer, line, values>>

\* The loop is left, into the caller or the firmware.
Left ==
  /\ pc \in {"done", "crashed"}
  /\ UNCHANGED vars

Next == Skip \/ HandleOption \/ InvalidSyntax \/ Validate \/ Left

Spec == Init /\ [][Next]_vars

---------------------------------------------------------------------------
(* Properties.                                                             *)

\* What the file says, line by line and without indices.
Lines ==
  LET breaks == {0} \union {k \in DOMAIN file : file[k] = Newline}
  IN [b \in breaks |->
        SubSeq(file, b + 1,
               Min({k \in breaks : k > b} \union {Len(file) + 1}) - 1)]

Until(text, c) ==
  CHOOSE p \in Prefixes(text) :
    /\ c \notin Range(p)
    /\ p = text \/ Append(p, c) \in Prefixes(text)

Trimmed(text) ==
  LET bounds == CHOOSE b \in (1..(Len(text) + 1)) \X (0..Len(text)) :
        /\ \A k \in DOMAIN text \ (b[1]..b[2]) : text[k] \in Whitespace
        /\ b[1] <= b[2] => {text[b[1]], text[b[2]]} \cap Whitespace = {}
  IN SubSeq(text, bounds[1], bounds[2])

\* A line sets an option when the option's name and a colon begin it, behind
\* whitespace at most; the value is what stands before a comment.
Sets(row, option) ==
  LET text == SkipWhitespace(row)
  IN Append(option, Colon) \in Prefixes(text)

Setting(row, option) ==
  Trimmed(Until(SubSeq(SkipWhitespace(row), Len(option) + 2,
                       Len(SkipWhitespace(row))), Hash))

\* Neither empty, nor a comment, nor something with a colon.
Malformed(row) ==
  LET text == SkipWhitespace(row)
  IN text # <<>> /\ Head(text) # Hash /\ Colon \notin Range(text)

\* The length that is copied never wraps: a comment that begins before the
\* colon keeps the line from naming an option.
ValueInsideLine ==
  pc = "line" =>
    LET text == SkipWhitespace(Text)
    IN IsOption(text) => /\ valueStart(text) <= valueEnd(text)
                         /\ valueEnd(text) <= lineEnd(text)

\* A configuration that is accepted means what its lines say, the last one
\* of several for the same option; one that is refused has a line that says
\* nothing or lacks a required option.  What is copied is part of the line.
OptionsAsWritten ==
  /\ ValueInsideLine
  /\ pc = "done" =>
       /\ DOMAIN values =
            {o \in Options : \E b \in DOMAIN Lines : Sets(Lines[b], o)}
       /\ \A o \in DOMAIN values :
            values[o] =
              Setting(Lines[Max({b \in DOMAIN Lines : Sets(Lines[b], o)})], o)
  /\ pc = "crashed" =>
       \/ \E b \in DOMAIN Lines : Malformed(Lines[b])
       \/ \E o \in Required : \A b \in DOMAIN Lines : ~Sets(Lines[b], o)
=============================================================================
