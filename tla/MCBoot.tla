------------------------------- MODULE MCBoot -------------------------------
(* The tasks of pid1.Run, a small image and two network interfaces. *)
EXTENDS Boot, BootTasks

MCTasks == DOMAIN RunTasks
MCAfter == [t \in MCTasks |-> RunTasks[t].after]
MCDo == [t \in MCTasks |-> RunTasks[t].do]

\* "usb" and "hid" are not asked for
MCModules == {"ata", "libata", "scsi", "usb", "hid"}
MCWanted == <<"sh", "ata">>
MCPresent == {"sh", "libc"} \cup MCModules
MCDirs == [f \in MCPresent \cup {"init"} |->
              IF f \in MCModules THEN <<"lib", "lib/modules">>
              ELSE IF f = "libc" THEN <<"lib">>
              ELSE IF f = "sh" THEN <<"bin">> ELSE <<>>]

\* A diamond, with a library that needs itself; a module that is missing
MCGraph(ata, libata, libc) ==
    [f \in MCPresent \cup {"init"} |->
        IF f = "ata" THEN ata ELSE IF f = "libata" THEN libata
        ELSE IF f = "usb" THEN <<"hid">>
        ELSE IF f = "sh" THEN <<"libc">> ELSE IF f = "libc" THEN libc ELSE <<>>]
MCGraphs ==
    {MCGraph(<<"libata", "scsi">>, <<"scsi">>, <<"libc">>),
     MCGraph(<<"libata", "virtio">>, <<>>, <<>>)}

MCDevices == <<"pci:1", "pci:2", "pci:1">>
MCMatches == ("pci:1" :> {"ata"}) @@ ("pci:2" :> {"scsi", "libata", "usb"})
MCWalkOrder == <<"ata", "libata", "scsi", "usb", "hid">>
MCAcks == {{"addr", "server"}, {"addr"}}
=============================================================================
