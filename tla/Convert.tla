------------------------------ MODULE Convert ------------------------------
(***************************************************************************)
(* One conversion after another into the same output path:                 *)
(* convert_with_progress of rai-infer/src/convert.rs from the checks it    *)
(* makes to the tokenizer it copies, with what it leaves on the disk when  *)
(* it fails, is killed, or the machine loses power.                        *)
(*                                                                         *)
(* A conversion writes `<output>.partial`, one section after the other, and*)
(* renames it over the output once it is complete and synced.  A file is   *)
(* known by the checkpoint it was written from and the number of sections  *)
(* written; File, of Checkpoint, says what is in it.  `unsynced` are the   *)
(* paths whose contents a power loss may still tear, `replaced` what the   *)
(* output's directory entry may still fall back to, because the rename     *)
(* itself is never synced.                                                 *)
(*                                                                         *)
(* A user may ask `preflight` about a checkpoint before converting it.     *)
(***************************************************************************)
EXTENDS Checkpoint

CONSTANTS
    Source,         \* checkpoints a user converts
    Existing,       \* checkpoints an output that is already there may come from
    MaxConversions, \* bound: conversions started
    MaxCrashes,     \* bound: kills and power losses
    Absent,         \* no file, no answer
    Torn            \* what nobody can read: a file cut off or never filled

VARIABLES
    ckpt,       \* the checkpoint being converted
    stage,      \* where convert_with_progress is
    report,     \* what preflight said of ckpt
    result,     \* how the last conversion ended
    partial,    \* the file at <output>.partial
    output,     \* the file at the output path
    tokenizer,  \* tokenizer.json beside it
    unsynced,   \* paths whose contents are not durable
    replaced,   \* the files the output may be once more after a power loss
    killed,     \* whether what is in partial was left by a crash
    started, crashes

disk == <<partial, output, tokenizer, unsynced, replaced, killed>>
convertVars == <<ckpt, stage, report, result, disk, started, crashes>>

Written(k, n) == [of |-> k, sections |-> n]

ASSUME ConvertAssumption ==
    /\ \A k \in Source : CheckpointType(k)
    /\ Absent # Torn /\ Absent \notin {"ok", "wrong size"}
    /\ \A k \in Source : Converts(k) =>
          \A n \in 0..PlannedSections(k) : Written(k, n) \notin {Absent, Torn}
    /\ \A k \in Existing : Written(k, PlannedSections(k)) \notin {Absent, Torn}

Whole(file) == file # Torn /\ file.sections = PlannedSections(file.of)

ConvertInit ==
    /\ ckpt = Absent /\ stage = "idle" /\ report = Absent /\ result = Absent
    /\ partial = Absent
    /\ \/ output = Absent /\ tokenizer \in {Absent} \cup {k.tok : k \in Existing}
       \/ \E k \in Existing : /\ output = Written(k, PlannedSections(k))
                              /\ tokenizer = k.tok
    /\ unsynced = {} /\ replaced = {} /\ killed = FALSE
    /\ started = 0 /\ crashes = 0

(* A path whose entry now points elsewhere is synced or not as its new file. *)
Renamed(paths) == (paths \ {"partial", "output"})
                      \cup (IF "partial" \in paths THEN {"output"} ELSE {})

End(how) == stage' = "idle" /\ result' = how

-----------------------------------------------------------------------------
(* A user picks a checkpoint for the output path. *)
Choose(k) ==
    /\ stage = "idle" /\ started < MaxConversions
    /\ ckpt' = k /\ stage' = "asked" /\ report' = Absent /\ result' = Absent
    /\ started' = started + 1
    /\ UNCHANGED <<disk, crashes>>

(* Studio's Check, `rai inspect`: preflight, of the checkpoint or of its     *)
(* config.json before the weights are fetched.  It writes nothing.           *)
Inspect ==
    /\ stage = "asked" /\ report = Absent
    /\ \E weights \in BOOLEAN : report' = PreflightReport(ckpt, weights)
    /\ UNCHANGED <<ckpt, stage, result, disk, started, crashes>>

(* Everything that is refused for what the checkpoint is. *)
Refuse ==
    /\ stage = "asked" /\ ~Converts(ckpt)
    /\ End("refused")
    /\ UNCHANGED <<ckpt, report, disk, started, crashes>>

(* The guard's drop. *)
RemovePartial ==
    /\ partial' = Absent /\ unsynced' = unsynced \ {"partial"}
    /\ UNCHANGED <<output, tokenizer, replaced, killed>>

(* Refused for what is around it: no tokenizer beside the checkpoint, no room*)
(* on the disk for the planned bytes.                                        *)
NoTokenizer ==
    /\ stage = "asked"
    /\ End("no tokenizer")
    /\ UNCHANGED <<ckpt, report, disk, started, crashes>>

NoRoom ==
    /\ stage = "asked" /\ Converts(ckpt)
    /\ End("no room")
    /\ UNCHANGED <<ckpt, report, disk, started, crashes>>

(* The file cannot be created: the guard is there before it, and removes     *)
(* what an earlier conversion has left at the path.                          *)
CannotCreate ==
    /\ stage = "asked" /\ Converts(ckpt)
    /\ RemovePartial /\ End("not created")
    /\ UNCHANGED <<ckpt, report, started, crashes>>

(* File::create, which truncates, the header and the section table.  From    *)
(* here on PartialOutput removes the file if the conversion ends.            *)
Create ==
    /\ stage = "asked" /\ Converts(ckpt)
    /\ partial' = Written(ckpt, 0) /\ unsynced' = unsynced \cup {"partial"}
    /\ killed' = FALSE
    /\ stage' = "writing"
    /\ UNCHANGED <<ckpt, report, result, output, tokenizer, replaced, started, crashes>>

(* A section of the container, streamed to its end. *)
WriteSection ==
    /\ stage = "writing" /\ partial.sections < PlannedSections(ckpt)
    /\ SectionWritable(ckpt, partial.sections + 1)
    /\ partial' = [partial EXCEPT !.sections = @ + 1]
    /\ UNCHANGED <<ckpt, stage, report, result, output, tokenizer, unsynced, replaced, killed,
                   started, crashes>>

(* A weight that is not finite, a shard that cannot be read, a full disk, a  *)
(* calibration that is refused, a panic.                                     *)
FailWriting ==
    /\ stage = "writing"
    /\ RemovePartial /\ End("failed")
    /\ UNCHANGED <<ckpt, report, started, crashes>>

(* Mutant: the file is renamed as it is, neither measured nor synced. *)
FinishUnsynced ==
    /\ stage = "writing" /\ partial.sections = PlannedSections(ckpt)
    /\ stage' = "synced"
    /\ UNCHANGED <<ckpt, report, result, disk, started, crashes>>

(* The last check: as many bytes as planned.  If so sync_all, and the guard  *)
(* is disarmed.                                                              *)
Sync ==
    /\ stage = "writing" /\ partial.sections = PlannedSections(ckpt)
    /\ IF SizeAsPlanned(ckpt, partial.sections)
       THEN /\ unsynced' = unsynced \ {"partial"} /\ stage' = "synced"
            /\ UNCHANGED <<result, partial, output, tokenizer, replaced, killed>>
       ELSE RemovePartial /\ End("wrong size")
    /\ UNCHANGED <<ckpt, report, started, crashes>>

Rename ==
    /\ stage = "synced"
    /\ output' = partial /\ partial' = Absent
    /\ unsynced' = Renamed(unsynced)
    /\ replaced' = replaced \cup {output}
    /\ stage' = "renamed"
    /\ UNCHANGED <<ckpt, report, result, tokenizer, killed, started, crashes>>

RenameFails ==
    /\ stage = "synced"
    /\ End("rename failed")
    /\ UNCHANGED <<ckpt, report, disk, started, crashes>>

-----------------------------------------------------------------------------
(* copy_tokenizer_json, after the model is in place.  A tokenizer that is    *)
(* there is kept: the same one is fine, another one is an error.             *)

TokenizerThere ==
    /\ stage = "renamed" /\ tokenizer # Absent
    /\ End(IF tokenizer = ckpt.tok THEN "ok" ELSE "tokenizer refused")
    /\ UNCHANGED <<ckpt, report, disk, started, crashes>>

(* fs::write creates the file and then fills it. *)
CopyTokenizer ==
    /\ stage = "renamed" /\ tokenizer = Absent
    /\ tokenizer' = Torn /\ unsynced' = unsynced \cup {"tokenizer"}
    /\ stage' = "copying"
    /\ UNCHANGED <<ckpt, report, result, partial, output, replaced, killed, started, crashes>>

TokenizerCopied ==
    /\ stage = "copying"
    /\ tokenizer' = ckpt.tok
    /\ End("ok")
    /\ UNCHANGED <<ckpt, report, partial, output, unsynced, replaced, killed, started, crashes>>

TokenizerFails ==
    /\ stage \in {"renamed", "copying"}
    /\ End("tokenizer failed")
    /\ UNCHANGED <<ckpt, report, disk, started, crashes>>

-----------------------------------------------------------------------------
(* The process is killed: what is on the disk stays as it is. *)
Kill ==
    /\ stage # "idle" /\ crashes < MaxCrashes
    /\ stage' = "idle" /\ result' = Absent /\ crashes' = crashes + 1
    /\ killed' = (killed \/ stage = "writing")
    /\ UNCHANGED <<ckpt, report, partial, output, tokenizer, unsynced, replaced, started>>

(* The machine loses power, during a conversion or after it: a file that was *)
(* not synced may be torn or not there, a .partial may not be there either,  *)
(* since its directory is never synced, and an output may be what it was     *)
(* before the rename.                                                        *)
AfterPowerLoss(path, file) == {file} \cup (IF path \in unsynced THEN {Torn, Absent} ELSE {})

PowerLoss ==
    /\ crashes < MaxCrashes
    /\ stage' = "idle" /\ result' = Absent /\ crashes' = crashes + 1
    /\ \/ /\ output' \in AfterPowerLoss("output", output)
          /\ partial' \in AfterPowerLoss("partial", partial) \cup {Absent}
       \/ /\ output' \in replaced
          /\ partial' \in AfterPowerLoss("output", output) \cup {Absent}
    /\ tokenizer' \in AfterPowerLoss("tokenizer", tokenizer)
    /\ unsynced' = {} /\ replaced' = {} /\ killed' = TRUE
    /\ UNCHANGED <<ckpt, report, started>>

ConvertNext ==
    \/ \E k \in Source : Choose(k)
    \/ Inspect \/ Refuse \/ NoTokenizer \/ NoRoom \/ CannotCreate \/ Create
    \/ WriteSection \/ FailWriting \/ Sync \/ Rename \/ RenameFails
    \/ TokenizerThere \/ CopyTokenizer \/ TokenizerCopied \/ TokenizerFails
    \/ Kill \/ PowerLoss

ConvertSpec == ConvertInit /\ [][ConvertNext]_convertVars

-----------------------------------------------------------------------------
(* Whatever ends a conversion - an error, a panic, a kill, a power loss - the*)
(* output is no file or a complete model, and a .partial that is still there *)
(* after a conversion that was not killed is a complete model too: the one   *)
(* the error message tells the user to rename by hand.                       *)
OnlyWholeFiles ==
    /\ output # Absent => Whole(output)
    /\ stage = "idle" /\ partial # Absent /\ ~killed => Whole(partial)

(* What a conversion of k writes opens, has the configuration of k, and holds*)
(* in every slot the tensor that plays this role in the model k is of.       *)
Usable == [k \in {s \in Source : Converts(s)} |->
              LET file == File(k, PlannedSections(k)) IN Opens(file) /\ ReadsBack(k, file)]

(* A conversion that reports success has left such a model, with the         *)
(* tokenizer of the same checkpoint beside it: planner, writer and reader    *)
(* agree on the layout, the header forgets no capability, and the checks of  *)
(* the converter are as strict as those of the reader - but for one.  The    *)
(* planned size is compared with the free disk space and never with the size *)
(* that the reader refuses a file above, so a file beyond it is a success    *)
(* too, and no use.                                                          *)
SuccessMeansUsable ==
    result = "ok" =>
        /\ output = Written(ckpt, PlannedSections(ckpt))
        /\ tokenizer = ckpt.tok
        /\ Usable[ckpt] <=> WithinFileLimit(File(ckpt, PlannedSections(ckpt)))

(* The planned sizes are those written: no conversion of a checkpoint that   *)
(* passed the checks ends, minutes later, in the internal error; and what    *)
(* preflight reported of a checkpoint that is then converted is the file     *)
(* that was written: never "unsupported", and with the weights at hand its   *)
(* version, its number of sections and its size to the byte.                 *)
PlanIsExact ==
    /\ result # "wrong size"
    /\ result = "ok" /\ report # Absent =>
          /\ report.supported
          /\ report.weights =>
                LET f == File(ckpt, PlannedSections(ckpt))
                IN  report.container[1] = [version  |-> f.header.version,
                                           sections |-> Len(f.table),
                                           bytes    |-> FileLen(f)]

(* "the accept/reject answer is theirs": a checkpoint that preflight called  *)
(* supported, its weights at hand, is not refused by the conversion.         *)
PreflightIsTheVerdict ==
    report # Absent /\ report.weights /\ report.supported => result # "refused"
=============================================================================
