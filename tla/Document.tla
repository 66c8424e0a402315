------------------------------- MODULE Document -------------------------------
(***************************************************************************)
(* The document of MP/Vector/document.c: a Vector of lines that is written *)
(* to a file and read from it. client says who uses the vector, a document *)
(* or a program that calls vector.h itself. One document exists at a time. *)
(*                                                                         *)
(* A line has no newline in it; Text is a line of one character.           *)
(***************************************************************************)
EXTENDS Vector

CONSTANTS Empty, Text,
          MaxLines   \* bound on the lines of a document, which is written once

ASSUME LineAssumption == {Empty, Text} \subseteq Values /\ Empty # Text
ASSUME MaxLinesAssumption == MaxLines \in Nat

VARIABLES
    client,        \* "vector" or "document"
    stage,         \* "open", "reading" (in Document_create_from_file), "crashed"
    file,          \* whether it exists, its lines, whether the last one ends
                   \* with a newline
    line_number,   \* the local of Document_create_from_file
    saved          \* history: << >>, or <<the document when it was last written>>

documentVars == <<client, stage, file, line_number, saved>>

DocumentInit ==
    /\ Init
    /\ client \in {"vector", "document"}
    /\ stage = "open" /\ line_number = 0 /\ saved = << >>
    /\ file \in [exists : BOOLEAN, lines : {<< >>, <<Text>>}, ended : BOOLEAN]
    /\ client = "vector" => ~file.exists
    /\ ~file.exists => file.lines = << >>
    /\ file.lines = << >> => file.ended

Editing == client = "document" /\ stage = "open"

-----------------------------------------------------------------------------
\* The asserts keep NULL out; a gap that an insert leaves is NULL all the same.
Document_set_line(i, str) == Vector_set(i, str) /\ UNCHANGED documentVars
Document_insert_line(i, str) == Vector_insert(i, str)
Document_delete_line(i) == Vector_delete(i) /\ UNCHANGED documentVars
Document_destroy == Vector_destroy /\ UNCHANGED documentVars

\* Variant: a line that is NULL is not written.
Written_NotNull(line) == IF line = NULL THEN << >> ELSE <<line>>

Written(line) == IF line = NULL THEN <<Empty>> ELSE <<line>>

Document_write_to_file ==
    /\ Alive
    /\ file'  = [exists |-> TRUE,
                 lines |-> FlattenSeq([i \in 1 .. size |-> Written(Contents[i])]),
                 ended |-> TRUE]
    /\ saved' = <<Contents>>
    /\ UNCHANGED <<vars, client, stage, line_number>>

Document_create ==
    /\ destroyed
    /\ array' = [i \in 1 .. INITIAL_CAPACITY |-> NULL] /\ size' = 0
    /\ destroyed' = FALSE
    /\ UNCHANGED <<heap, copies, faults, shrunk, self_set>>

\* Document_create_from_file up to its loop. The stream of a file that cannot be
\* opened is NULL, and getline is called with it.
OpenFile ==
    /\ Document_create
    /\ copies + Len(file.lines) <= MaxCopies
    /\ stage' = IF file.exists THEN "reading" ELSE "crashed"
    /\ line_number' = 0
    /\ UNCHANGED <<client, file, saved>>

\* The last character of what getline returns is cut off, newline or not.
LineRead(i) ==
    IF i = Len(file.lines) /\ ~file.ended THEN Empty ELSE file.lines[i]

ReadLine ==
    /\ line_number < Len(file.lines)
    /\ Document_insert_line(line_number + 1, LineRead(line_number + 1))
    /\ line_number' = line_number + 1
    /\ UNCHANGED <<client, stage, file, saved>>

EndOfFile ==
    /\ line_number = Len(file.lines)
    /\ stage' = "open"
    /\ UNCHANGED <<vars, client, file, line_number, saved>>

Edit ==
    \/ \E i \in 1 .. MaxLines : Document_delete_line(i)
    \/ /\ copies < MaxCopies
       /\ \E i \in 1 .. MaxLines, str \in Values :
             \/ Document_set_line(i, str)
             \/ size < MaxLines /\ Document_insert_line(i, str) /\ UNCHANGED documentVars
    \/ Document_destroy
    \/ saved = << >> /\ Document_write_to_file
    \/ Document_create /\ UNCHANGED documentVars
    \/ OpenFile

DocumentNext ==
    \/ client = "vector" /\ Next /\ UNCHANGED documentVars
    \/ Editing /\ Edit
    \/ stage = "reading" /\ (ReadLine \/ EndOfFile)

DocumentSpec == DocumentInit /\ [][DocumentNext]_<<vars, documentVars>>

-----------------------------------------------------------------------------
\* A document that is written, destroyed and read again has the lines it had,
\* with "" for each NULL that an insert beyond the end had left in it
\* (document.h:18-21), however the vector grew and shrank on the way.
RoundTrip ==
    [][stage = "reading" /\ stage' = "open" /\ saved # << >> =>
          Contents' = [i \in DOMAIN saved[1] |->
                         IF saved[1][i] = NULL THEN Empty ELSE saved[1][i]]
      ]_<<vars, documentVars>>
=============================================================================
