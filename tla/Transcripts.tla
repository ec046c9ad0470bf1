----------------------------- MODULE Transcripts -----------------------------
(***************************************************************************)
(* The compression of one agent transcript, plugins/devartifacts.go:       *)
(* forEachAgentTranscript finds it stale and unreferenced, and             *)
(* compressAgentTranscript copies it to a temporary file, renames that to  *)
(* the archived name and removes the original, one call at a time.  The    *)
(* agent may append to the transcript at any moment, the daemon may stop,  *)
(* and the configured codec may change between runs.                       *)
(*                                                                         *)
(* Contents are sets of lines, numbered as they were written.              *)
(***************************************************************************)
EXTENDS Naturals, FiniteSets

CONSTANTS MaxLines, \* the bound of the model on lines
          Codecs    \* agent_transcript_codec: "zstd", "gzip"

ASSUME TranscriptsAssumption == MaxLines \in Nat \ {0}

VARIABLES original,   \* [there, lines]: the .jsonl file
          compressed, \* [codec -> [there, lines]]: .jsonl.zst, .jsonl.gz
          scratch,    \* [there, lines]: the temporary file
          written,    \* lines ever written
          zip,        \* the compression: [at, codec]
          fresh,      \* the transcript changed within agent_transcript_compress_after
          agent,      \* how a process has it: "none", "named" (on its command line), "open"
          slipped     \* lines written while a compression had its copy already

tvars == <<original, compressed, scratch, written, zip, fresh, agent, slipped>>

NoFile == [there |-> FALSE, lines |-> {}]
Zipless == [at |-> "idle", codec |-> "none"]

TInit ==
  /\ original = [there |-> TRUE, lines |-> {1}]
  /\ compressed = [c \in Codecs |-> NoFile]
  /\ scratch = NoFile
  /\ written = 1
  /\ zip = Zipless
  /\ fresh = TRUE
  /\ agent = "open"
  /\ slipped = {}
-----------------------------------------------------------------------------
\* agentTranscriptAlreadyArchived: under any codec.
AlreadyArchived == \E c \in Codecs : compressed[c].there

\* activeAgentPathReferences: command lines only, none when ps fails.
AgentRefs(seen) == seen /\ agent = "named"

\* The walk comes to the transcript.
FindTranscript ==
  /\ zip.at = "idle"
  /\ original.there /\ ~ fresh
  /\ \E seen \in BOOLEAN : ~ AgentRefs(seen)
  /\ \E c \in Codecs : zip' = [at |-> "check", codec |-> c]
  /\ UNCHANGED <<original, compressed, scratch, written, fresh, agent, slipped>>

CheckArchived ==
  /\ zip.at = "check"
  /\ zip' = IF AlreadyArchived \/ ~ original.there THEN Zipless ELSE [zip EXCEPT !.at = "copy"]
  /\ UNCHANGED <<original, compressed, scratch, written, fresh, agent, slipped>>

\* Mutant: an error of the copy goes unnoticed.
CopyLines_Unchecked ==
  /\ zip.at = "copy"
  /\ \E some \in SUBSET original.lines : scratch' = [there |-> TRUE, lines |-> some]
  /\ zip' = [zip EXCEPT !.at = "rename"]
  /\ UNCHANGED <<original, compressed, written, fresh, agent, slipped>>

\* CreateTemp, io.Copy up to the end of the file, Chmod and Chtimes.
CopyLines ==
  /\ zip.at = "copy"
  /\ scratch' = [there |-> TRUE, lines |-> original.lines]
  /\ zip' = [zip EXCEPT !.at = "rename"]
  /\ UNCHANGED <<original, compressed, written, fresh, agent, slipped>>

\* A call before the rename, or the rename, fails: the temporary file goes.
CopyFails ==
  /\ zip.at \in {"copy", "rename"}
  /\ scratch' = NoFile
  /\ zip' = Zipless
  /\ UNCHANGED <<original, compressed, written, fresh, agent, slipped>>

RenameCopy ==
  /\ zip.at = "rename"
  /\ compressed' = [compressed EXCEPT ![zip.codec] = scratch]
  /\ scratch' = NoFile
  /\ zip' = [zip EXCEPT !.at = "remove"]
  /\ UNCHANGED <<original, written, fresh, agent, slipped>>

\* os.Remove of the original, or its failure: both files stay.
RemoveOriginal ==
  /\ zip.at = "remove"
  /\ original' \in {original, NoFile}
  /\ zip' = Zipless
  /\ UNCHANGED <<compressed, scratch, written, fresh, agent, slipped>>

\* The daemon stops: a temporary file stays, and no later run looks at it.
ZipCrash ==
  /\ zip.at # "idle"
  /\ zip' = Zipless
  /\ scratch' = NoFile
  /\ UNCHANGED <<original, compressed, written, fresh, agent, slipped>>
-----------------------------------------------------------------------------
(* The agent.                                                              *)

\* A line is appended, to a new file when the old one was compressed and is
\* not open any more; to a file that is open and removed it is lost.
AppendLine ==
  /\ agent # "none"
  /\ written < MaxLines
  /\ written' = written + 1
  /\ original' = IF original.there \/ agent = "named"
                 THEN [there |-> TRUE, lines |-> original.lines \cup {written + 1}]
                 ELSE original
  /\ slipped' = IF zip.at \in {"rename", "remove"} \/ ~ (original.there \/ agent = "named")
                THEN slipped \cup {written + 1} ELSE slipped
  /\ fresh' = TRUE
  /\ UNCHANGED <<compressed, scratch, zip, agent>>

AgentChanges ==
  /\ \E a \in {"none", "named", "open"} : agent' = a
  /\ UNCHANGED <<original, compressed, scratch, written, zip, fresh, slipped>>

TranscriptAges ==
  /\ fresh
  /\ fresh' = FALSE
  /\ UNCHANGED <<original, compressed, scratch, written, zip, agent, slipped>>

TNext ==
  \/ FindTranscript \/ CheckArchived \/ CopyLines \/ CopyFails \/ RenameCopy
  \/ RemoveOriginal \/ ZipCrash \/ AppendLine \/ AgentChanges \/ TranscriptAges

TSpec == TInit /\ [][TNext]_tvars
-----------------------------------------------------------------------------
Content == [there : BOOLEAN, lines : SUBSET (1..MaxLines)]

TTypeOK ==
  /\ original \in Content /\ scratch \in Content /\ compressed \in [Codecs -> Content]
  /\ written \in 1..MaxLines /\ slipped \subseteq 1..MaxLines
  /\ zip \in [at : {"idle", "check", "copy", "rename", "remove"}, codec : Codecs \cup {"none"}]

\* compressAgentTranscript "is atomic at the rename": whatever call fails and
\* wherever the daemon stops, every line is in the transcript or in its archived
\* copy, but for lines written after the copy was made.
LinesKept ==
  1..written \subseteq original.lines \cup slipped \cup UNION {compressed[c].lines : c \in Codecs}

\* agentTranscriptAlreadyArchived: a transcript has one archived copy, however
\* often runs are cut short, the transcript is continued or the codec changes.
OneCopy == Cardinality({c \in Codecs : compressed[c].there}) <= 1

\* compressAgentTranscript neither loses what was written nor keeps it twice.
TranscriptKept == LinesKept /\ OneCopy
=============================================================================
