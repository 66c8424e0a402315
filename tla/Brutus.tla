-------------------------------- MODULE Brutus --------------------------------
(***************************************************************************)
(* main of Lab/Et_tu_Brute/brutus.c: a child per line of the journal, each *)
(* with a pipe of its own, that writes the decrypted line and exits; the   *)
(* parent waits for the children one by one and then reads their pipes.    *)
(* A line is its number, and lengths[i] its bytes with the newline.        *)
(***************************************************************************)
EXTENDS Integers, Sequences, FiniteSetsExt

CONSTANTS MaxLines, Lengths,   \* bounds: how many lines, how long they may be,
          MaxLength,           \* and how long at most
          PAGE                 \* of a pipe, and the size of the parent's buffer

ASSUME LengthsAssumption == {MaxLines, MaxLength} \subseteq Nat /\ Lengths \subseteq 1 .. MaxLength
ASSUME PageAssumption    == PAGE \in Nat \ {0}

VARIABLES
    lengths,      \* of the lines of the input file
    children,     \* "none", "failed" (fork returned -1), "decrypting",
                  \* "blocked" in write, "exited", "reaped"
    pipes,        \* how many bytes are in each
    parent,       \* "fork", "wait", "read" or "end"
    i,            \* the index of its loops
    buffer,       \* the line it holds, with its closing NUL or not
    outputfile    \* the lines written to it

journal == <<lengths, children, pipes, parent, i, buffer, outputfile>>

lineNum == Len(lengths)
maxSize == Max({lengths[j] : j \in 1 .. lineNum})

\* What a string that is not closed prints, and what the buffer holds at first.
Garbage == 0

\* Variant: every pipe keeps one page.
capacity_OnePage == PAGE

\* What fcntl(F_SETPIPE_SZ, maxSize) makes of a pipe: one page, or the power of
\* two of them that maxSize takes.
capacity ==
    IF maxSize <= PAGE THEN PAGE
    ELSE Min({PAGE * 2 ^ k : k \in 1 .. maxSize} \ (0 .. maxSize - 1))

Journal(ls) ==
    /\ lengths = ls
    /\ children = [j \in DOMAIN ls |-> "none"]
    /\ pipes = [j \in DOMAIN ls |-> 0]
    /\ parent = "fork" /\ i = 1
    /\ buffer = Garbage /\ outputfile = << >>

JournalInit == \E n \in 1 .. MaxLines : \E ls \in [1 .. n -> Lengths] : Journal(ls)

-----------------------------------------------------------------------------
\* On to the next line, or to `stage` after the last.
NextLine(stage) ==
    IF i < lineNum THEN i' = i + 1 /\ UNCHANGED parent ELSE i' = 1 /\ parent' = stage

Fork ==
    /\ parent = "fork"
    /\ \E pid \in {"decrypting", "failed"} : children' = [children EXCEPT ![i] = pid]
    /\ NextLine("wait")
    /\ UNCHANGED <<lengths, pipes, buffer, outputfile>>

\* Variant: the line without its NUL.
Decrypt_NoNul(j) ==
    /\ children[j] = "decrypting"
    /\ pipes' = [pipes EXCEPT ![j] = lengths[j]]
    /\ children' = [children EXCEPT ![j] = "exited"]
    /\ UNCHANGED <<lengths, parent, i, buffer, outputfile>>

\* The line and its NUL, in one write: a child whose pipe cannot hold them all
\* fills it and stays, since nobody reads from the pipe before it has exited.
Decrypt(j) ==
    /\ children[j] = "decrypting"
    /\ pipes' = [pipes EXCEPT ![j] = Min({lengths[j] + 1, capacity})]
    /\ children' = [children EXCEPT ![j] =
                      IF lengths[j] + 1 <= capacity THEN "exited" ELSE "blocked"]
    /\ UNCHANGED <<lengths, parent, i, buffer, outputfile>>

\* waitpid(children[i]); with the -1 of a fork that failed it waits for any
\* child. It returns at once if there is none of those left.
Wait ==
    LET awaited == {j \in 1 .. lineNum : (j = i \/ children[i] = "failed")
                                          /\ children[j] \notin {"failed", "reaped"}}
    IN  /\ parent = "wait"
        /\ \/ awaited = {} /\ UNCHANGED children
           \/ \E j \in awaited : /\ children[j] = "exited"
                                 /\ children' = [children EXCEPT ![j] = "reaped"]
        /\ parent' = "read"
        /\ UNCHANGED <<lengths, pipes, i, buffer, outputfile>>

\* Every child holds the write ends of all the pipes until it exits, so an
\* empty pipe is at its end when all have. A line that fills the buffer has no
\* NUL there; the buffer that nothing is read into has what it had.
Read ==
    LET received == IF pipes[i] = 0 THEN buffer
                    ELSE IF pipes[i] = lengths[i] + 1 /\ pipes[i] <= PAGE THEN i
                    ELSE Garbage
    IN  /\ parent = "read"
        /\ pipes[i] > 0 \/ \A j \in 1 .. lineNum : children[j] \in {"failed", "exited", "reaped"}
        /\ buffer' = received
        /\ outputfile' = Append(outputfile, received)
        /\ pipes' = [pipes EXCEPT ![i] = IF @ <= PAGE THEN 0 ELSE @ - PAGE]
        /\ IF i < lineNum THEN i' = i + 1 /\ parent' = "wait" ELSE parent' = "end" /\ UNCHANGED i
        /\ UNCHANGED <<lengths, children>>

Parent == Fork \/ Wait \/ Read

JournalSpec == JournalInit /\ [][Parent \/ \E j \in 1 .. lineNum : Decrypt(j)]_journal

-----------------------------------------------------------------------------
AllForked == \A j \in 1 .. lineNum : children[j] # "failed"

\* Et_tu_Brute/README.md: the decryptions are written in the order of the lines.
\* Each is printed once, whole and in its place, if it fits the buffer with its
\* NUL and every child was created (a fork that failed prints the line before
\* again).
JournalInOrder ==
    AllForked /\ maxSize < PAGE => outputfile = [j \in 1 .. Len(outputfile) |-> j]
===============================================================================
