--------------------------- MODULE MCPreviewServe ---------------------------
(***************************************************************************)
(* A small instance of PreviewServe for TLC.                               *)
(***************************************************************************)
EXTENDS PreviewServe, MCStatefulRuntime

\* What a client of one or two namespaces sends; one of the decisions may also
\* be asked for with features that JSON rounds.
ClientRequests ==
    LET sent == {r \in MCRequests :
                   /\ r.method \in {"decide", "feedback", "reset", "observe", "health"}
                   /\ r.defect \in {"none", "expiredRequest"}}
    IN  sent \cup {[r EXCEPT !.rounded = Actions] :
                     r \in {s \in sent : s.method = "decide" /\ s.id = AnyId /\ s.defect = "none"}}

\* rill-runtime --help, of --state-file: "The file contains handler state and
\* the delayed decision ledger and is preserved across restart."  A file with a
\* feature that JSON rounds fails its own checksum, and no process starts on it.
FileAlwaysRestores == file # NoFile => Restorable(ReadBack(file))
=============================================================================
