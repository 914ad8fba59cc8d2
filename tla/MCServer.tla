------------------------------ MODULE MCServer -------------------------------
(***************************************************************************)
(* Parts of the server that share no state, checked in one run: the first  *)
(* state chooses which of them goes, and the others stay as they began.    *)
(***************************************************************************)
EXTENDS VoipRelay, LeakyBucket, MCDownload

VARIABLE focus  \* the part that goes

(* Three recordings of a first talker, more than there are generations,    *)
(* and one of the next.                                                    *)
RecordingsOf == <<3, 1>>

(* Two addresses share a chain, or would. *)
HashOf == [a \in Addresses |-> IF a = "b" THEN 1 ELSE 0]

allVars == <<focus, voipVars, bucketVars, downloadVars>>

Init ==
    /\ focus \in {"voice", "rate", "downloads"}
    /\ VoipInit /\ BucketInit /\ DownloadInit

OthersStay(part) ==
    /\ focus = part /\ UNCHANGED focus
    /\ IF part = "voice" THEN TRUE ELSE UNCHANGED voipVars
    /\ IF part = "rate" THEN TRUE ELSE UNCHANGED bucketVars
    /\ IF part = "downloads" THEN TRUE ELSE UNCHANGED downloadVars

Next ==
    \/ OthersStay("voice") /\ VoipNext
    \/ OthersStay("rate") /\ BucketNext
    \/ OthersStay("downloads") /\ DownloadNext

(* DownloadFairness *)
Fairness ==
    /\ WF_allVars(OthersStay("downloads") /\ SV_SendDownloadMessages)
    /\ WF_allVars(OthersStay("downloads") /\ SV_ExecuteClientCommand)
    /\ WF_allVars(OthersStay("downloads") /\ CL_ParseDownload)
    /\ SF_allVars(OthersStay("downloads") /\ CL_ParseDownload /\ IsExpected(Head(toClient)))

Spec == Init /\ [][Next]_allVars /\ Fairness
-----------------------------------------------------------------------------
(* Download's EventuallyDone: downloads that are begun come to an end.     *)
DownloadsEnd == focus = "downloads" => EventuallyDone
==============================================================================
