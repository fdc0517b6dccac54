---------------------------- MODULE UploadPromise ----------------------------
(***************************************************************************)
(* What the upload function of a page is promised (HTTPUpload in            *)
(* ESP32WebServer.h): every file of a form is announced, comes in pieces    *)
(* and in order, and ends whole - or the form is broken off, within a file  *)
(* or before one, once and for all.                                         *)
(***************************************************************************)
EXTENDS Naturals, Sequences, SequencesExt

VARIABLES
  form,       (* the files the browser sends                                 *)
  number,     (* the number of the file that is coming, 0 before the first   *)
  received,   (* what the function has got of it                             *)
  phase       (* "none", "between" two files, "file", "aborted"              *)

promiseVars == <<form, number, received, phase>>

PromiseInit == number = 0 /\ received = <<>> /\ phase = "none"

Post  == phase = "none" /\ phase' = "between" /\ UNCHANGED <<number, received>>

Start == /\ phase = "between" /\ number < Len(form)
         /\ number' = number + 1 /\ received' = <<>> /\ phase' = "file" /\ UNCHANGED form

Write == /\ phase = "file" /\ IsPrefix(received, received') /\ IsPrefix(received', form[number])
         /\ UNCHANGED <<form, number, phase>>

(* The last piece and the end come together.                                *)
End   == /\ phase = "file" /\ received' = form[number] /\ phase' = "between"
         /\ UNCHANGED <<form, number>>

Abort == /\ phase \in {"file", "between"} /\ phase' = "aborted" /\ number' = 0 /\ received' = <<>>
         /\ UNCHANGED form

PromiseNext == Post \/ Start \/ Write \/ End \/ Abort
PromiseSpec == PromiseInit /\ [][PromiseNext]_promiseVars
=============================================================================
