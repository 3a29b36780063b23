------------------------------- MODULE FileTool -------------------------------
(***************************************************************************)
(* Inside a call of the file tool that ToolHub.invoke makes                *)
(* (app/tools/file_tool.py): reading and writing files of the workspace.   *)
(* Runs are executed by several threads, so that two calls may be in the   *)
(* same file.  A document is identified with the call that wrote it;       *)
(* Orchestration has what a run makes of a call that returns or raises.    *)
(***************************************************************************)
EXTENDS Naturals

CONSTANTS
  FileCalls,                 \* calls of the tool
  Large,                     \* documents that exceed max_file_size_mb
  Paths, Below,              \* files; Below[d]: the files below allowed directory d
  Format,                    \* Format[f]: "json" (also docx, xlsx), "text" (txt, csv), "doc"
                             \* (also pdf), or "unknown"
  Found,                     \* documents that were there before the calls
  Nothing, Broken            \* no file; a file that is not all there

Operations == {"read", "write", "list", "other"}
Uses == [op : Operations, path : Paths]

ASSUME FileAssumption ==
  /\ Nothing \notin FileCalls \cup Found \cup {Broken} \cup Uses
  /\ Broken \notin FileCalls \cup Found /\ FileCalls \cap Found = {}
  /\ Large \subseteq FileCalls \cup Found

VARIABLES
  disk,        \* disk[f]: the document in f
  use,         \* use[c]: operation and path of a call
  at,          \* at[c]: what c does next, or how it ended
  text,        \* text[c]: the document a read returns
  prior        \* prior[c]: the calls that had ended when c began (history)

fileVars == <<disk, use, at, text, prior>>

IsPathAllowed(f) == \E d \in DOMAIN Below : f \in Below[d]
AllowedPaths == {f \in Paths : IsPathAllowed(f)}

FileInit ==
  /\ disk \in [Paths -> Found \cup {Nothing}]
  /\ use = [c \in FileCalls |-> Nothing] /\ at = [c \in FileCalls |-> "new"]
  /\ text = [c \in FileCalls |-> Nothing] /\ prior = [c \in FileCalls |-> {}]

Starts(c, op, path, next) ==
  /\ at[c] = "new"
  /\ use' = [use EXCEPT ![c] = [op |-> op, path |-> path]]
  /\ prior' = [prior EXCEPT ![c] = {d \in FileCalls : at[d] \in {"answered", "failed"}}]
  /\ at' = [at EXCEPT ![c] = next]

(* A path outside the allowed directories, or an operation there is none    *)
(* of; a directory is listed without touching its files.                    *)
Refuse(c) ==
  /\ \E f \in Paths, op \in Operations :
       (~IsPathAllowed(f) \/ op = "other") /\ Starts(c, op, f, "failed")
  /\ UNCHANGED <<disk, text>>

ListFiles(c) ==
  /\ \E f \in AllowedPaths, outcome \in {"answered", "failed"} : Starts(c, "list", f, outcome)
  /\ UNCHANGED <<disk, text>>

(* _write_file: what cannot be written, or not as json, fails before the    *)
(* file is opened; opening it empties it.                                   *)
OpenForWrite(c) ==
  /\ \E f \in AllowedPaths :
       \/ Starts(c, "write", f, "failed") /\ UNCHANGED disk
       \/ /\ Format[f] \in {"json", "text"}
          /\ Starts(c, "write", f, "writing")
          /\ disk' = [disk EXCEPT ![f] = Broken]
  /\ UNCHANGED <<text>>

FinishWrite(c) ==
  LET f == use[c].path IN
  /\ at[c] = "writing"
  /\ \/ at' = [at EXCEPT ![c] = "answered"] /\ disk' = [disk EXCEPT ![f] = c]
     \/ /\ disk[f] \in FileCalls                       \* over the longer one of another write
        /\ at' = [at EXCEPT ![c] = "answered"] /\ disk' = [disk EXCEPT ![f] = Broken]
     \/ at' = [at EXCEPT ![c] = "failed"] /\ disk' = [disk EXCEPT ![f] = Broken]
  /\ UNCHANGED <<use, text, prior>>

(* _read_file: first the size is checked, then the file is read. *)
GuardNothing(c) ==                             \* mutant: the size is not checked
  /\ \E f \in AllowedPaths :
       IF disk[f] = Nothing THEN Starts(c, "read", f, "failed") ELSE Starts(c, "read", f, "reading")
  /\ UNCHANGED <<disk, text>>
GuardSize(c) ==
  /\ \E f \in AllowedPaths :
       IF disk[f] = Nothing \/ disk[f] \in Large
       THEN Starts(c, "read", f, "failed") ELSE Starts(c, "read", f, "reading")
  /\ UNCHANGED <<disk, text>>

(* A text is what is there; a json document parses or raises; a .doc is     *)
(* converted, which may raise.                                              *)
ReadDocument(c) ==
  LET f == use[c].path IN
  /\ at[c] = "reading"
  /\ \/ /\ Format[f] = "text" \/ (Format[f] \in {"json", "doc"} /\ disk[f] # Broken)
        /\ at' = [at EXCEPT ![c] = "answered"] /\ text' = [text EXCEPT ![c] = disk[f]]
     \/ /\ Format[f] # "text" /\ (Format[f] = "json" => disk[f] = Broken)
        /\ at' = [at EXCEPT ![c] = "failed"] /\ UNCHANGED text
  /\ UNCHANGED <<disk, use, prior>>
FileNext ==
  \E c \in FileCalls : \/ Refuse(c) \/ ListFiles(c) \/ OpenForWrite(c) \/ FinishWrite(c)
                       \/ GuardSize(c) \/ ReadDocument(c)

FileSpec == FileInit /\ [][FileNext]_fileVars
------------------------------------------------------------------------------
(* A read returns a document that was in the file while it ran, not one     *)
(* that an acknowledged write had replaced before; one over the size limit, *)
(* or one that is not all there, only because of a write in progress, of    *)
(* two at a time or of one that failed (file_tool.py:54 checks the size     *)
(* before the file is read).                                                *)
ReadIsSound ==
  \A c \in {d \in FileCalls : at[d] = "answered" /\ use[d].op = "read"} :
    LET f == use[c].path
        writes == {d \in FileCalls : use[d] = [op |-> "write", path |-> f]} IN
    /\ text[c] = Broken => Format[f] = "text" /\
         \E d \in writes : d \notin prior[c] \/ at[d] = "failed" \/ \E e \in writes \ {d} :
                             e \notin prior[d] /\ d \notin prior[e]
    /\ text[c] \in Large => \E d \in writes : d \notin prior[c]
    /\ text[c] # Broken =>
         \A d \in writes \cap prior[c] : at[d] = "answered" => text[c] \notin prior[d] \cup Found
==============================================================================
