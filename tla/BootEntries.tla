---------------------------- MODULE BootEntries ----------------------------
(***************************************************************************)
(* How a command makes the machine start into its deploy: the last stages  *)
(* of install, update, uninstall, files and rollback, the choice of a boot *)
(* plugin, the four plugins, the entries on the ESP and the options the    *)
(* loaders read.  Commands run one at a time under the process lock; the   *)
(* late hook that confirms a boot does not take it and comes at any time.  *)
(*                                                                         *)
(* Simplifications: the machine has EFI variables and a mounted ESP; an    *)
(* entry is written as a whole or not at all; an entry is the digest on    *)
(* its kernel command line; a loader finds the entries by their names.     *)
(***************************************************************************)
EXTENDS FiniteSets, Sequences

CONSTANTS
    Digests,    \* the prefix digests of the deploys
    Machines,   \* the machines considered
    Slot,       \* upac_uki_to_slot
    None        \* no entry, no plugin, no request

Loaders == {"uki", "systemd-boot", "grub", "refind"}
BootResources == {"type1", "vmlinuz", "type2"}
Names == Digests \cup {Slot}

\* What the probes look for: an EFI variable of systemd-boot, GRUB's
\* environment file, an EFI variable of rEFInd.
Marks == {"LoaderInfo", "grubenv", "PreviousBoot"}
MarksOf(loader) == CASE loader = "systemd-boot" -> {"LoaderInfo"}
                     [] loader = "grub"         -> {"grubenv"}
                     [] loader = "refind"       -> {"PreviousBoot"}
                     [] loader = "uki"          -> {}

\* What starts the machine, the plugins linked in and the ones with a
\* manifest, the marks found before the first command, what get_boot_resources
\* finds in the tree of each of its deploys, and the files of the ESP, as stem
\* and extension, that have a Boot#### variable.
Machine == [loader : Loaders, builtin : SUBSET Loaders, manifests : SUBSET Loaders,
            marks : SUBSET Marks, first : Digests,
            resources : [Digests -> Seq(BootResources)],
            registered : SUBSET [stem : Names, extension : {"", ".efi"}]]

ASSUME NameAssumption == Slot \notin Digests /\ None \notin Names \cup Loaders
ASSUME MachineAssumption ==
    \A m \in Machines : /\ m \in Machine
                        /\ MarksOf(m.loader) \subseteq m.marks
                        /\ Len(m.resources[m.first]) = 1

VARIABLES
    machine,    \* which of the machines it is
    booted,     \* composefs.digest of the running system
    marks,      \* what the probes would find now
    entries,    \* entries[n]: the digest the entry n of the ESP starts
    once,       \* once[l]: the entry in the one-shot option of loader l
    always,     \* always[l]: the one in its persistent option
    step,       \* the step the running command takes next
    target,     \* its NewPrefixDigest or TargetPrefixDigest
    requested,  \* its RequestedBootPlugin
    entry,      \* ResolvedBootEntry: the name
    plugin,     \* ResolvedBootEntry: the plugin
    outcome     \* what the last command returned

disk    == <<machine, booted, marks, entries, once, always>>
command == <<target, requested, entry, plugin>>
vars    == <<machine, booted, marks, entries, once, always,
             step, target, requested, entry, plugin, outcome>>

----------------------------------------------------------------------------
(***************************************************************************)
(* Choosing a plugin.                                                      *)
(***************************************************************************)
Installed == machine.manifests \cup machine.builtin

Probes(loader) == IF loader = "uki" THEN marks = {}
                                    ELSE MarksOf(loader) \subseteq marks

Claimants == [origin : {"manifest"}, loader : {l \in machine.manifests : Probes(l)}]
             \cup [origin : {"builtin"}, loader : {l \in machine.builtin : Probes(l)}]

\* Mutant: the first claimant is taken.
ResolvedFirst == IF requested = None THEN {c.loader : c \in Claimants}
                 ELSE {requested} \cap Installed

\* The plugin resolve_boot_plugin returns, or none.  A name is trusted.
Resolved ==
    IF requested = None
    THEN {l \in Loaders : \E c \in Claimants : Claimants = {c} /\ c.loader = l}
    ELSE {requested} \cap Installed

----------------------------------------------------------------------------
(***************************************************************************)
(* The stages.                                                             *)
(***************************************************************************)
\* Mutant: every image is staged under the fixed name.
EntryNameFixed(p) == Slot

\* BLS entries are named by their digest, a UKI by the slot.
EntryName(p) == IF machine.resources[p] = <<"type2">> THEN Slot ELSE p

\* After genesis, with the first deploy running and confirmed.
Init ==
    /\ machine \in Machines
    /\ booted = machine.first
    /\ marks = machine.marks
    /\ entries = [n \in Names |-> IF n = EntryName(booted) THEN booted ELSE None]
    /\ once = [l \in Loaders |-> None]
    /\ always = [l \in Loaders |-> IF l = machine.loader THEN EntryName(booted) ELSE None]
    /\ step = "idle"
    /\ target = None /\ requested = None /\ entry = None /\ plugin = None
    /\ outcome = "none"

Begin(p, name) ==
    /\ step = "idle"
    /\ step' = "checkout" /\ target' = p /\ requested' = name
    /\ outcome' = "none"
    /\ UNCHANGED <<disk, entry, plugin>>

Return(result) ==
    /\ step' = "idle" /\ outcome' = result
    /\ target' = None /\ requested' = None /\ entry' = None /\ plugin' = None

\* The stage's guard is NoRollback: what is on the ESP and in the options stays.
Refuse(result) == Return(result) /\ UNCHANGED disk

\* CheckoutStage, first half: write_boot_entry.
WriteEntry ==
    /\ step = "checkout"
    /\ Len(machine.resources[target]) = 1
    /\ entry' = EntryName(target)
    /\ entries' = [entries EXCEPT ![EntryName(target)] = target]
    /\ step' = "resolve"
    /\ UNCHANGED <<machine, booted, marks, once, always, target, requested, plugin, outcome>>

NoEntry ==
    /\ step = "checkout"
    /\ Len(machine.resources[target]) # 1
    /\ Refuse(IF machine.resources[target] = <<>> THEN "NoBootResource" ELSE "AmbiguousBootResource")

\* CheckoutStage, second half: resolve_boot_plugin.
Resolve ==
    /\ step = "resolve"
    /\ plugin' \in Resolved
    /\ step' = "swap"
    /\ UNCHANGED <<disk, target, requested, entry, outcome>>

\* Mutant: the error of the resolution is taken for an empty answer.
NoPluginIgnored ==
    /\ step = "resolve"
    /\ Resolved = {}
    /\ step' = "swap"
    /\ UNCHANGED <<disk, target, requested, entry, plugin, outcome>>

\* A build that loads no plugins and has none linked in has no claimant, even
\* for a command that names one.
NoPlugin ==
    /\ step = "resolve"
    /\ Resolved = {}
    /\ \/ requested # None /\ Refuse("UnknownName")
       \/ (requested = None \/ Installed = {}) /\ Claimants = {} /\ Refuse("NoClaimant")
       \/ requested = None /\ Claimants # {} /\ Refuse("AmbiguousClaim")

\* find_boot_id: a registered file whose path ends with the name.
EndsWith(file, name) == file.extension = "" /\ file.stem = name
BootIds(name) == {file \in machine.registered : EndsWith(file, name)}

\* The two variables of systemd-boot, the two tools of GRUB and BootNext are
\* the one-shot option of their loader.  rEFInd has a single variable, which
\* comes into being here; so does GRUB's environment file.
SetOneShot(loader, name) ==
    /\ loader = "uki" => BootIds(name) # {}
    /\ IF loader = "refind"
       THEN always' = [always EXCEPT ![loader] = name] /\ UNCHANGED once
       ELSE once' = [once EXCEPT ![loader] = name] /\ UNCHANGED always
    /\ marks' = IF loader \in {"grub", "refind"} THEN marks \cup MarksOf(loader) ELSE marks

\* SwapStage.  The stages that follow it only return.
Swap ==
    /\ step = "swap"
    /\ SetOneShot(plugin, entry)
    /\ step' = "post"
    /\ UNCHANGED <<machine, booted, entries, command, outcome>>

NoBootId ==
    /\ step = "swap" /\ plugin = "uki" /\ BootIds(entry) = {}
    /\ Refuse("EntryNotFound")

Finish == step = "post" /\ Refuse("ok")

\* A step fails, the user cancels, or the process dies.
Fail ==
    /\ step # "idle"
    /\ \E result \in {"StageFailed", "Killed"} : Refuse(result)

----------------------------------------------------------------------------
(***************************************************************************)
(* The machine.                                                            *)
(***************************************************************************)
Opened(name) == IF name = None THEN None ELSE entries[name]

NextEntry == IF once[machine.loader] # None THEN once[machine.loader]
                                            ELSE always[machine.loader]

\* A start takes the one-shot entry and removes it; if that deploy does not
\* come up, the next start takes the persistent one.
Boot ==
    /\ booted' \in {Opened(NextEntry), Opened(always[machine.loader])} \ {None}
    /\ once' = [once EXCEPT ![machine.loader] = None]
    /\ Return("Killed")
    /\ UNCHANGED <<machine, marks, entries, always>>

\* The late hook calls confirm_boot of the machine's plugin with the entry of
\* the running deploy.
ConfirmBoot ==
    /\ machine.loader = "uki" => BootIds(EntryName(booted)) # {}
    /\ always' = [always EXCEPT ![machine.loader] = EntryName(booted)]
    /\ UNCHANGED <<machine, booted, marks, entries, once, step, command, outcome>>

Next ==
    \/ \E p \in Digests, name \in Loaders \cup {None} : Begin(p, name)
    \/ WriteEntry \/ NoEntry \/ Resolve \/ NoPlugin \/ Swap \/ NoBootId
    \/ Finish \/ Fail \/ Boot \/ ConfirmBoot

Spec == Init /\ [][Next]_vars

----------------------------------------------------------------------------
(***************************************************************************)
(* Properties.                                                             *)
(***************************************************************************)
OrNone(S) == S \cup {None}

\* Type invariant: also what each step finds in the context.
TypeOK ==
    /\ machine \in Machines
    /\ booted \in Digests
    /\ marks \subseteq Marks /\ MarksOf(machine.loader) \subseteq marks
    /\ entries \in [Names -> OrNone(Digests)]
    /\ once \in [Loaders -> OrNone(Names)]
    /\ always \in [Loaders -> OrNone(Names)]
    /\ step \in {"idle", "checkout", "resolve", "swap", "post"}
    /\ target \in IF step = "idle" THEN {None} ELSE Digests
    /\ requested \in OrNone(Loaders)
    /\ entry \in IF step \in {"idle", "checkout"} THEN {None} ELSE Names
    /\ plugin \in IF step \in {"swap", "post"} THEN Loaders ELSE {None}

\* A loader with two options, and no deploy that is a UKI.
Paired ==
    /\ machine.loader \in {"systemd-boot", "grub"}
    /\ \A p \in Digests : machine.resources[p] # <<"type2">>

Select == INSTANCE BootSelect WITH
              persistent <- Opened(always[machine.loader]),
              oneShot    <- Opened(once[machine.loader])

\* With such a loader and such images, commands, starts and confirmations in
\* any order, also commands that fail half-way or name another loader's
\* plugin, implement the boot options the deploy store counts on: an entry
\* written before the swap, or overwritten by a rollback to it, changes
\* neither what the machine starts next nor what it falls back to.
ImplementsBootSelect ==
    /\ Paired => Select!Init
    /\ [][Paired => [Select!Next]_(Select!options)]_vars

\* The one-shot option that the next start reads leads to the command's deploy.
Armed ==
    step = "post" /\ outcome' = "ok" /\ requested \in {None, machine.loader}
       => Opened(once[machine.loader]) = target

\* A command that has succeeded has armed the loader of this machine with its
\* deploy, whatever marks other loaders have left and whatever was named
\* before, if the plugin of the machine is there and no other was asked for.
\* Two kinds of machines are excepted.  rEFInd: it has no one-shot option
\* (OnlyConfirmed).  One that its firmware starts and another loader has left
\* its mark on, for a command that names no plugin: the UKI plugin takes the
\* mark for that loader's machine (FirmwareIsRecognized).
OkMeansArmed ==
    [][ /\ machine.loader \in Installed
        /\ machine.loader # "refind"
        /\ machine.loader = "uki" => marks = {} \/ requested = "uki"
        => Armed ]_vars

\* doc/eng/Upac chapter 5.md:47, the auto-rollback: what the machine falls back
\* to is changed by the confirmation only.  rEFInd has one option for both, and
\* a UKI is written over the slot that the persistent option starts.
FallbackStays ==
    [][ always[machine.loader] = always'[machine.loader]
           => Opened(always[machine.loader])' = Opened(always[machine.loader]) ]_vars

OnlyConfirmed ==
    [][ always'[machine.loader] # always[machine.loader]
           => always'[machine.loader] = EntryName(booted) ]_vars

\* lib.toml:148-161: the slot's file is registered once, and a command arms it.
UkiIsArmed == outcome # "EntryNotFound"

\* lib.toml:119-121: without a name the plugin that claims to manage the
\* machine's boot is used.  On a machine that its firmware starts, one command
\* that named GRUB or rEFInd by mistake leaves a mark, for which the UKI plugin
\* never claims the machine again and the other one does: the next command
\* names none, says ok, and has armed a loader that does not run.
FirmwareIsRecognized ==
    [][machine.loader = "uki" /\ machine.loader \in Installed => Armed]_vars
=============================================================================
