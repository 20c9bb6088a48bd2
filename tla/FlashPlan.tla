----------------------------- MODULE FlashPlan -----------------------------
(***************************************************************************)
(* What is to be written where: the plan of the client (src/src/plan.rs),  *)
(* its import from an ESP-IDF build (src/src/idf.rs), the upload manifest  *)
(* (src/src/wire.rs) and the checks of the backend                         *)
(* (src/src/backend/flashing.rs, `validate`).                              *)
(*                                                                         *)
(* A byte is a pair <<rev, i>>, the i-th of one revision of a file, so     *)
(* that a digest is the data itself.  A file is [rev, size].  Refused is   *)
(* the result of every check that fails.                                   *)
(***************************************************************************)
EXTENDS Integers, Sequences, FiniteSets, SequencesExt, FiniteSetsExt

CONSTANTS
  Align,        \* 4: offsets, and the padding of data
  Sector,       \* SECTOR_SIZE, 4096: what the flash erases at once
  AddressSpace, \* 2^32
  MaxSegments,  \* 64
  MaxArtifact,  \* MAX_ARTIFACT_BYTES, of a plan's files
  MaxUpload,    \* MAX_UPLOAD_BYTES, of one request
  MaxRead,      \* MAX_READ_BYTES
  Headers,      \* rev -> [chip, capacity] of the files with a bootloader header
  BootAddress   \* chip -> where its bootloader begins

ASSUME PlanAssumption ==
  /\ Align \in Nat \ {0} /\ Sector \in Nat \ {0} /\ Sector % Align = 0
  /\ AddressSpace \in Nat /\ MaxSegments \in Nat /\ MaxUpload \in Nat
  /\ MaxUpload <= MaxArtifact /\ MaxRead <= AddressSpace

\* flash_settings.size: a capacity, or one of two words for none.
Keep == 0
Detect == -1

Refused == [refused |-> TRUE]
Ok(result) == result # Refused

Blank == <<"ff", 0>>
RoundUp(n, k) == ((n + k - 1) \div k) * k
RoundDown(n, k) == (n \div k) * k

Data(file) == [i \in 1 .. file.size |-> <<file.rev, i>>]
Pad(data) == data \o [i \in 1 .. RoundUp(Len(data), Align) - Len(data) |-> Blank]
Total(sizes) ==
  LET total[n \in 0 .. Len(sizes)] == IF n = 0 THEN 0 ELSE total[n - 1] + sizes[n]
  IN total[Len(sizes)]

\* What of a flash a segment of that length erases: its sectors, whole.
Erased(offset, length) == RoundDown(offset, Sector) .. RoundUp(offset + length, Sector) - 1

\* Mutant: the comparison of plain ranges, without the sectors they erase.
RangesApart(ranges) ==
  \A i, j \in DOMAIN ranges :
    i # j /\ ranges[i].offset <= ranges[j].offset
      => ranges[i].offset + ranges[i].length <= ranges[j].offset

(* The check of neighbours in offset order, both in prepare and in the      *)
(* manifest's validate: one may begin in the first sector behind the other. *)
SectorsApart(ranges) ==
  \A i, j \in DOMAIN ranges :
    i # j /\ ranges[i].offset <= ranges[j].offset
      => RoundUp(ranges[i].offset + ranges[i].length, Sector)
           <= RoundDown(ranges[j].offset, Sector)

(* sort_by_key, of what has no offset twice.                                *)
ByOffset(segments) ==
  CHOOSE sorted \in [DOMAIN segments -> ToSet(segments)] :
    /\ ToSet(sorted) = ToSet(segments)
    /\ \A i, j \in DOMAIN sorted : i < j => sorted[i].offset < sorted[j].offset

-----------------------------------------------------------------------------
(* idf.rs, import: the images of a build that are to be flashed.  A build   *)
(* is [chip, capacity, files, images, plain]: flash_files, the named        *)
(* entries, and whether its arguments are ones that are implemented.        *)

Import(build, selected, disk) ==
  LET named == [n \in DOMAIN selected |-> build.images[selected[n]]]
      usable ==
        /\ IsInjective(selected) /\ ToSet(selected) \subseteq DOMAIN build.images
        /\ \A n \in DOMAIN named :
             named[n] \in ToSet(build.files) /\ disk[named[n].file].size > 0
      segments == IF selected = <<>>
                    THEN FlattenSeq([n \in DOMAIN build.files |->
                           IF disk[build.files[n].file].size > 0
                             THEN <<build.files[n]>> ELSE <<>>])
                    ELSE named
  IN IF ~build.plain \/ (selected # <<>> /\ ~usable) \/ segments = <<>> THEN Refused
     ELSE [chip |-> build.chip, capacity |-> build.capacity, segments |-> segments]

-----------------------------------------------------------------------------
(* plan.rs, FlashPlan::prepare: the files are read, before any hardware.    *)

Prepare(plan, disk) ==
  LET read == [n \in DOMAIN plan.segments |->
                [offset |-> plan.segments[n].offset,
                 data |-> Pad(Data(disk[plan.segments[n].file])),
                 size |-> disk[plan.segments[n].file].size]]
      fine ==
        /\ Len(read) \in 1 .. MaxSegments
        /\ Total([n \in DOMAIN read |-> read[n].size]) <= MaxArtifact
        /\ \A n \in DOMAIN read :
             /\ read[n].offset % Align = 0 /\ read[n].size > 0
             /\ read[n].offset + Len(read[n].data) <= AddressSpace
        /\ SectorsApart([n \in DOMAIN read |->
             [offset |-> read[n].offset, length |-> Len(read[n].data)]])
  IN IF ~fine THEN Refused
     ELSE [chip |-> plan.chip, capacity |-> plan.capacity, segments |-> ByOffset(read)]

(* PreparedPlan::validate_capacity.                                         *)
Fits(prepared, capacity) ==
  \A n \in DOMAIN prepared.segments :
    prepared.segments[n].offset + Len(prepared.segments[n].data) <= capacity

(* flashing.rs, validate: settings against the bootloader, if there is one. *)
Validate(prepared) ==
  LET explicit == prepared.capacity \notin {Keep, Detect}
  IN /\ prepared.chip \in DOMAIN BootAddress
     /\ explicit => Fits(prepared, prepared.capacity)
     /\ \A n \in DOMAIN prepared.segments :
          LET s == prepared.segments[n]
              rev == s.data[1][1]
          IN s.offset = BootAddress[prepared.chip] =>
               /\ rev \in DOMAIN Headers
               /\ Headers[rev].chip = prepared.chip
               /\ explicit => Headers[rev].capacity = prepared.capacity

(* The rest can be told only by the chip: configured_size against the       *)
(* detected one, and validate_detected_size.                                *)
FitsBoard(prepared, capacity) ==
  /\ Fits(prepared, capacity)
  /\ prepared.capacity # Detect => prepared.capacity <= capacity
  /\ prepared.capacity = Detect =>
       \A n \in DOMAIN prepared.segments :
         prepared.segments[n].offset = BootAddress[prepared.chip] =>
           Headers[prepared.segments[n].data[1][1]].capacity = capacity

-----------------------------------------------------------------------------
(* wire.rs: the manifest that goes before the files.                        *)

(* FlashUploadManifest::from_plan.                                          *)
Manifest(device, prepared) ==
  LET part(s) == [offset |-> s.offset, size |-> s.size, sha256 |-> SubSeq(s.data, 1, s.size)]
  IN IF Total([n \in DOMAIN prepared.segments |-> Len(prepared.segments[n].data)]) > MaxUpload
       THEN Refused
     ELSE [device |-> device, chip |-> prepared.chip, capacity |-> prepared.capacity,
           segments |-> [n \in DOMAIN prepared.segments |-> part(prepared.segments[n])]]

(* FlashUploadManifest::validate, by the daemon, before it takes a byte.    *)
Admissible(manifest) ==
  LET parts == manifest.segments
      ranges == [n \in DOMAIN parts |->
                  [offset |-> parts[n].offset, length |-> RoundUp(parts[n].size, Align)]]
  IN /\ Len(parts) \in 1 .. MaxSegments
     /\ Total([n \in DOMAIN parts |-> parts[n].size]) <= MaxUpload
     /\ \A n \in DOMAIN parts :
          /\ parts[n].offset % Align = 0 /\ parts[n].size > 0
          /\ ranges[n].offset + ranges[n].length <= AddressSpace
     /\ SectorsApart(ranges)

(* One part as it arrives: its size and digest are those announced.         *)
Announced(part, data) == Len(data) = part.size /\ data = part.sha256

(* FlashUploadManifest::into_plan.                                          *)
IntoPlan(manifest, received) ==
  LET segment(n) == [offset |-> manifest.segments[n].offset, data |-> Pad(received[n]),
                     size |-> Len(received[n])]
      whole == /\ Admissible(manifest)
               /\ DOMAIN received = DOMAIN manifest.segments
               /\ \A n \in DOMAIN received : Announced(manifest.segments[n], received[n])
  IN IF ~whole THEN Refused
     ELSE [chip |-> manifest.chip, capacity |-> manifest.capacity,
           segments |-> ByOffset([n \in DOMAIN received |-> segment(n)])]

(* ReadFlashRequest::validate and EraseFlashRequest::validate.              *)
Readable(offset, size) == size \in 1 .. MaxRead /\ offset + size <= AddressSpace
=============================================================================
