-------------------------------- MODULE MCFiles --------------------------------
(***************************************************************************)
(* The instances of what goes through files: of the files of uploads,      *)
(* exports, backups and restores and, beside it, of the import of a file   *)
(* and of the native tools that dump and restore.  `part` says which of    *)
(* the three a behaviour runs; the others have no state or stay in an      *)
(* initial state.                                                          *)
(***************************************************************************)
EXTENDS TransferFiles, TLC

CONSTANTS DumpEngines, DumpChunks    \* of the tools

\* A dump has a length.
ASSUME ChunksAssumption == DumpChunks \in Nat

VARIABLES part,
          job, tool, temp, dump, db,                                       \* the tools
          body, buffer, file, text, phase, req, records, reference, pairSplit,
          pending, table, saved, tx, aborted, sum, outcome                 \* the import

\* The .cfg takes a dump of three chunks, by either engine.
NT == INSTANCE NativeTools WITH Engines <- DumpEngines, Chunks <- DumpChunks, file <- dump

\* Every CSV text of at most three characters and a few longer ones; SQL texts with
\* every token the reader knows.
MCCsvTexts ==
    UNION {[1 .. n -> {"q", "d", "n", "x"}] : n \in 1 .. 3}
    \cup {<<"x", "n", "y", "n", "x">>, <<"x", "n", "x", "n", "y", "n">>,
          <<"y", "n", "y", "n", "x">>, <<"q", "x", "q", "q", "x">>,
          <<"q", "n", "q", "n", "x">>}

MCSqlTexts ==
    {<<"x", "c", "x", "c">>, <<"x", "c", "y", "c", "x">>,
     <<"s", "c", "s", "c", "x">>, <<"s", "k", "s", "c", "s">>,
     <<"m", "m", "c", "n", "x">>, <<"o", "e", "c", "e", "o", "x">>,
     <<"g", "g", "c", "g", "g", "x">>, <<"s", "s", "s", "c", "x">>, <<"n", "n">>,
     <<"x", "c", "l", "c", "y">>, <<"x", "c", "l", "y", "c", "x">>, <<"x", "c", "t", "c", "y">>}

M == INSTANCE Imports WITH CsvTexts <- MCCsvTexts, SqlTexts <- MCSqlTexts, BatchSizes <- {1, 2},
                           RowErrorThreshold <- 2

-----------------------------------------------------------------------------
tools == <<job, tool, temp, dump, db>>
import == <<body, buffer, file, text, phase, req, records, reference, pairSplit, pending, table,
            saved, tx, aborted, sum, outcome>>
allVars == <<vars, tools, import, part>>

\* The variables of a part that does not run.
NoImport ==
    /\ body = 0 /\ buffer = 0 /\ file = 0 /\ text = 0 /\ phase = 0 /\ req = 0 /\ records = 0
    /\ reference = 0 /\ pairSplit = 0 /\ pending = 0 /\ table = 0 /\ saved = 0 /\ tx = 0
    /\ aborted = 0 /\ sum = 0 /\ outcome = 0

AllInit ==
    /\ part \in {"files", "tools", "import"}
    /\ Init
    /\ NT!Init
    /\ part # "tools" => job.req = CHOOSE r \in NT!Requests : TRUE
    /\ IF part = "import" THEN M!Init ELSE NoImport

AllNext ==
    \/ part = "files" /\ Next /\ UNCHANGED <<tools, import, part>>
    \/ part = "tools" /\ NT!Next /\ UNCHANGED <<vars, import, part>>
    \/ part = "import" /\ M!Next /\ UNCHANGED <<vars, tools, part>>

AllSpec == AllInit /\ [][AllNext]_allVars /\ Sweeping /\ NT!Fairness

\* A dump or restore that is reported as completed was whole, one that was not
\* leaves no file, and the password file never outlives its job (NativeTools).
ToolsAreTrue == NT!CompletedIsWhole /\ NT!PasswordFileRemoved

\* A cancel that the executor hears ends the job, even when the tool has stopped
\* reading and writing (NativeTools).
HeardCancelEnds == NT!HeardCancelEnds

\* The stored upload is the file the user chose and its records do not depend on how it was cut
\* into chunks; an import in one transaction that nothing in it ends early leaves all or nothing,
\* and what runs outside one is reported as it is in the target (Imports).
ImportIsTrue ==
    part = "import" =>
      M!UploadIsWhole /\ M!ChunksDoNotMatter /\ M!AllOrNothing /\ M!PartialIsReported
=============================================================================
