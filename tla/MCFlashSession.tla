--------------------------- MODULE MCFlashSession ---------------------------
(* A chip whose bootloader is at 0, sectors of four bytes, and two boards,  *)
(* one with twice the flash of the other.                                   *)
EXTENDS FlashSession, TLC

File(rev, size) == [rev |-> rev, size |-> size]
At_(offset, file) == [offset |-> offset, file |-> file]

MCHeaders == "loader" :> [chip |-> "esp", capacity |-> 8]
MCBootAddress == [chip \in {"esp", "other"} |-> 0]
MCFirstDisk == ("boot" :> File("loader", 3)) @@ ("app" :> File("app1", 4))
MCRevisions == ("boot" :> {}) @@
               ("app" :> {File("app2", 4), File("empty", 0)})

Build(files, capacity) ==
  [chip |-> "esp", capacity |-> capacity, files |-> files, plain |-> TRUE,
   images |-> "app" :> files[1]]
MCBuilds == {Build(<<At_(4, "app"), At_(0, "boot")>>, Detect), Build(<<At_(8, "app")>>, 16)}
MCSelections == {<<>>, <<"app">>}
Plan(segments, capacity) == [chip |-> "esp", capacity |-> capacity, segments |-> segments]
MCPlans == {Plan(<<At_(0, "boot"), At_(2, "app")>>, Keep),
            Plan(<<At_(16, "app")>>, Keep)}

Announce(offset, file) == [offset |-> offset, size |-> file.size, sha256 |-> Data(file)]
Raw == File("raw", 3)
Upload(segments, chip) == [device |-> 1, chip |-> chip, capacity |-> Keep, segments |-> segments]
MCManifests == {Upload(<<Announce(6, Raw), Announce(4, File("raw", 1))>>, "esp"),
                Upload(<<Announce(4, Raw)>>, "other")}
MCParts == {Raw, File("raw", 1)}

MCRequests == {[kind |-> "erase"], [kind |-> "reset"], [kind |-> "monitor"],
               [kind |-> "read", offset |-> 8, size |-> 8]}
MCKind == ("small" :> [chip |-> "esp", capacity |-> 8, secure |-> FALSE]) @@
          ("large" :> [chip |-> "esp", capacity |-> 16, secure |-> FALSE])
=============================================================================
