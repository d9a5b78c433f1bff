--------------------------- MODULE MCBootEntries ---------------------------
\* Machines of every loader; one that another loader has left its mark on, one
\* that has a plugin twice and one that has none.  The deploys of the machines
\* with a loader have BLS entries, but for one with two kernels and one with
\* none; those of the others are unified kernel images, and the file in the
\* slot is registered with its extension, as lib.toml says, or without.
EXTENDS BootEntries

CONSTANTS d0, d1, two, none

Plain == [d \in Digests |-> CASE d = two  -> <<"vmlinuz", "type1">>
                              [] d = none -> <<>>
                              [] OTHER    -> <<"type1">>]
Unified == [d \in Digests |-> CASE d = two  -> <<"type2", "type2">>
                                [] d = none -> <<>>
                                [] OTHER    -> <<"type2">>]

Of(loader, builtin, manifests, left, resources, extension) ==
    [loader |-> loader, builtin |-> builtin, manifests |-> manifests,
     marks |-> MarksOf(loader) \cup left, first |-> d0, resources |-> resources,
     registered |-> {[stem |-> Slot, extension |-> extension]}]

SystemdBoot == Of("systemd-boot", {}, {"uki", "systemd-boot", "refind"}, {}, Plain, ".efi")
LeftGrub    == Of("systemd-boot", {"systemd-boot"}, {"grub"}, {"grubenv"}, Plain, ".efi")
Without     == Of("systemd-boot", {}, {}, {}, Plain, ".efi")
Twice       == Of("grub", {"grub"}, {"grub", "systemd-boot"}, {}, Plain, ".efi")
Grub        == Of("grub", Loaders, {}, {}, Plain, ".efi")
Refind      == Of("refind", Loaders, {}, {}, Plain, ".efi")
Firmware    == Of("uki", Loaders, {}, {}, Unified, ".efi")
NoExtension == Of("uki", Loaders, {}, {}, Unified, "")
ManagedUki  == Of("systemd-boot", Loaders, {}, {}, Unified, ".efi")

MCMachines == {SystemdBoot, LeftGrub, Without, Twice, Grub, Refind, Firmware, NoExtension}
JustRefind == {Refind}
JustManagedUki == {ManagedUki}
JustFirmware == {Firmware}
JustNoExtension == {NoExtension}
=============================================================================
