-------------------------------- MODULE Ata --------------------------------
(***************************************************************************)
(* Drive detection of the ATA driver, ata_init in src/driver/ata/main.c.   *)
(*                                                                         *)
(* ata_init probes the drives one after the other: select, IDENTIFY, read  *)
(* the status, poll until BSY clears, classify by the LBA1/LBA2 signature  *)
(* when the command was aborted, poll for DRQ, read the 256-word IDENTIFY  *)
(* block and record the drive.  Port values are abstracted to what the     *)
(* code tests: status bits, the signature class and whether an IDENTIFY    *)
(* word is zero.  Register values, sizes and the model string are data no  *)
(* property tells apart, and the printing is left out.                     *)
(*                                                                         *)
(* The drives are the environment (not code of this repository): each is   *)
(* absent, an ATA disk, an ATAPI device, a SATA device, or a device that   *)
(* aborts IDENTIFY without a signature, or nothing on a floating bus that  *)
(* reads all ones; their status follows the ATA command protocol.          *)
(***************************************************************************)
EXTENDS Integers, FiniteSets

CONSTANT Drives     \* 0 .. n-1, ATA00 .. ATA11 in the code

Kinds == {"absent", "floating", "ata", "atapi", "sata", "faulty"}

VARIABLES
    dr,         \* the loop variable of the detection loop
    pc,         \* where ata_init is in the loop body for drive dr
    err,        \* err
    flags,      \* flags[d]: ata[d].flags as a set of FLAG_ names
    sectsize,   \* sectsize[d]: log2 of the sector size, 0 if not set
    kind,       \* kind[d]: the device attached (environment)
    dstate,     \* the device's command state: "idle", "busy", "drq", "error"
    idOk        \* idOk[d]: the IDENTIFY block of d was read in DRQ, no error

vars == <<dr, pc, err, flags, sectsize, kind, dstate, idOk>>

N == Cardinality(Drives)

\* The status byte the device of drive d shows, as the set of bits set.
Status(d) ==
    CASE kind[d] = "absent"   -> {}
      [] kind[d] = "floating" -> {"BSY", "DRQ", "ERR", "RDY"}
      [] dstate = "busy"      -> {"BSY"}
      [] dstate = "drq"       -> {"DRQ"}
      [] dstate = "error"     -> {"ERR"}
      [] OTHER                -> {"RDY"}

\* The device's answer to IDENTIFY (environment): ATA disks become busy and
\* then offer the data; the others abort it.
AfterIdentify(k) == IF k = "ata" THEN "busy" ELSE "error"

\* The signature class that LBA1/LBA2 hold after an aborted command.
Signature(k) ==
    CASE k = "atapi" -> "ATAPI"     \* 0xEB14 / 0x9669
      [] k = "sata"  -> "SATA"      \* 0xC33C
      [] k = "floating" -> "OTHER"  \* 0xFFFF
      [] OTHER       -> "NONE"      \* both registers zero

Init ==
    /\ dr = 0
    /\ pc = "select"
    /\ err = 0
    /\ flags = [d \in Drives |-> {}]
    /\ sectsize = [d \in Drives |-> 0]
    /\ kind \in [Drives -> Kinds]
    /\ dstate = "idle"
    /\ idOk = [d \in Drives |-> FALSE]

\* Move on to the next drive ("continue" or the end of the loop body).
NextDrive ==
    /\ dr' = dr + 1
    /\ pc' = IF dr + 1 < N THEN "select" ELSE "done"
    /\ dstate' = "idle"

(***************************************************************************)
(* The loop body, one action per stretch between status reads.             *)
(***************************************************************************)
\* Select, send IDENTIFY, read the status: no drive answers with 0.
Identify ==
    /\ pc = "select"
    /\ IF Status(dr) = {}
       THEN NextDrive
       ELSE /\ pc' = "poll1"
            /\ dstate' = AfterIdentify(kind[dr])
            /\ dr' = dr
    /\ flags' = IF Status(dr) = {} THEN flags ELSE [flags EXCEPT ![dr] = {"EXIST"}]
    /\ UNCHANGED <<err, sectsize, kind, idOk>>

\* Poll for the response: ERR ends with err = 1, BSY polls again, anything
\* else ends with err = 0.
Poll1 ==
    /\ pc = "poll1"
    /\ "BSY" \notin Status(dr) \/ "ERR" \in Status(dr)
    /\ err' = IF "ERR" \in Status(dr) THEN 1 ELSE 0
    /\ pc' = "classify"
    /\ UNCHANGED <<dr, flags, sectsize, kind, dstate, idOk>>

\* ATAPI and SATA devices: an error with a signature.  An ATAPI device is
\* sent ATAPI IDENTIFY; an unknown signature drops the drive.  Without a
\* signature the drive is taken to be ATA with 512-byte sectors.
Classify ==
    LET sig == Signature(kind[dr])
    IN
    /\ pc = "classify"
    /\ IF err = 1 /\ sig # "NONE"
       THEN CASE sig = "ATAPI" ->
                   /\ flags' = [flags EXCEPT ![dr] = @ \cup {"ATAPI"}]
                   /\ sectsize' = [sectsize EXCEPT ![dr] = 11]
                   /\ dstate' = "busy"
                   /\ pc' = "poll2" /\ dr' = dr
              [] sig = "SATA" ->
                   /\ flags' = [flags EXCEPT ![dr] = @ \cup {"SATA"}]
                   /\ pc' = "poll2" /\ dr' = dr
                   /\ UNCHANGED <<sectsize, dstate>>
              [] sig = "OTHER" ->
                   /\ flags' = [flags EXCEPT ![dr] = {}]
                   /\ NextDrive
                   /\ UNCHANGED sectsize
       ELSE /\ sectsize' = [sectsize EXCEPT ![dr] = 9]
            /\ pc' = "poll2" /\ dr' = dr
            /\ UNCHANGED <<flags, dstate>>
    /\ UNCHANGED <<err, kind, idOk>>

\* Wait for IDENTIFY to be ready: ERR ends with err = 1, DRQ without BSY
\* ends with err = 0, anything else polls again.
Poll2 ==
    /\ pc = "poll2"
    /\ "ERR" \in Status(dr) \/ ("BSY" \notin Status(dr) /\ "DRQ" \in Status(dr))
    /\ err' = IF "ERR" \in Status(dr) THEN 1 ELSE 0
    /\ pc' = "read"
    /\ UNCHANGED <<dr, flags, sectsize, kind, dstate, idOk>>

\* Read the 256 IDENTIFY words, whatever err says.  Out of DRQ the data
\* port gives words the code cannot predict; an ID_TYPE of zero drops the
\* drive, otherwise it is recorded, LBA48 if command set bit 26 is set.
ReadIdentify ==
    /\ pc = "read"
    /\ \E typeZero \in (IF dstate = "drq" THEN {FALSE} ELSE BOOLEAN),
          lba48 \in BOOLEAN :
         /\ flags' = [flags EXCEPT ![dr] =
                        IF typeZero THEN {} ELSE @ \cup (IF lba48 THEN {"LONG"} ELSE {})]
         /\ idOk' = [idOk EXCEPT ![dr] = dstate = "drq" /\ ~typeZero]
    /\ NextDrive
    /\ UNCHANGED <<err, sectsize, kind>>

(***************************************************************************)
(* The device (environment): a busy device finishes the command.           *)
(***************************************************************************)
DeviceReady ==
    /\ pc \in {"poll1", "poll2"}
    /\ dstate = "busy"
    /\ dstate' = "drq"
    /\ UNCHANGED <<dr, pc, err, flags, sectsize, kind, idOk>>

Next == Identify \/ Poll1 \/ Classify \/ Poll2 \/ ReadIdentify \/ DeviceReady

Spec == Init /\ [][Next]_vars

(***************************************************************************)
(* Properties                                                              *)
(***************************************************************************)
\* A drive ata_init has finished with and kept as present (FLAG_EXIST) had
\* its IDENTIFY block read while the device offered it (DRQ, no error): the
\* signature, capabilities and size it records are the drive's own.
PresentDrivesIdentified ==
    \A d \in Drives : d < dr /\ "EXIST" \in flags[d] => idOk[d]

====
