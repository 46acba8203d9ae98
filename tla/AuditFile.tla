------------------------------ MODULE AuditFile ------------------------------
(***************************************************************************)
(* The append-only JSONL audit file (FileAuditSink in audit/sink.py).      *)
(* write() opens the file for appending and writes the record's JSON and a *)
(* newline with no suspension point inside, so one write is one step.  It  *)
(* may fail, and then raises AuditSinkUnavailable; a write that fails when *)
(* the disk fills up may have left a prefix of the line behind.            *)
(* The file is the sequence of what each write appended:                   *)
(*   "line"   the JSON and its newline,                                    *)
(*   "noeol"  the whole JSON without the newline,                          *)
(*   "torn"   a shorter, non-empty prefix.                                 *)
(***************************************************************************)
EXTENDS Naturals, Sequences

CONSTANT Pieces   \* the pieces of its line that a failed write may leave behind

ASSUME PiecesAssumption == Pieces \subseteq {"noeol", "torn"}

VARIABLE file

Parts == {"line", "noeol", "torn"}

FileTypeOK(Records) == file \in Seq([rec : Records, part : Parts])
FileInit            == file = << >>

Chunk(r, p) == [rec |-> r, part |-> p]

\* write(record) returns: the line is complete.
WriteAccepted(r) == file' = Append(file, Chunk(r, "line"))

\* write(record) raises AuditSinkUnavailable: nothing was appended, or a
\* piece of the line was.
WriteRefused(r) ==
  \/ file' = file
  \/ \E p \in Pieces : file' = Append(file, Chunk(r, p))

\* Does what the i-th write appended stand on a line of its own that parses?
Parses(i) ==
  /\ i > 1 => file[i - 1].part = "line"
  /\ \/ file[i].part = "line"
     \/ file[i].part = "noeol" /\ i = Len(file)

\* query_by_session parses every line of the file and raises on the first
\* that is not a record, whichever session that line belongs to.
QueryRaises == \E i \in DOMAIN file : ~Parses(i)

\* Mutant: the session is not compared.
QueryAnySession(s) == [i \in DOMAIN file |-> file[i].rec]

\* The records it returns otherwise, each under the place it has in the file.
QueryBySession(s) == [i \in {j \in DOMAIN file : file[j].rec.session = s} |-> file[i].rec]
===============================================================================
