------------------------- MODULE BootEntriesProofs -------------------------
(***************************************************************************)
(* Proofs about BootEntries, for any deploys, images and machines.         *)
(*                                                                         *)
(* The invariant says what the entries on the ESP are worth: an entry is   *)
(* named after the deploy it starts, what an option names is there, and    *)
(* from the swap on the loader of the machine has what the command wrote.  *)
(***************************************************************************)
EXTENDS BootEntries, TLAPS

\* An entry has the name of the deploy it starts.
NamesFit == \A n \in Names : entries[n] # None => EntryName(entries[n]) = n

\* What the loader of the machine would start is on the ESP.
EntriesThere ==
    /\ always[machine.loader] \in Names /\ entries[always[machine.loader]] # None
    /\ once[machine.loader] # None => entries[once[machine.loader]] # None
    /\ entries[EntryName(booted)] # None

\* The plugin of this machine would claim it: no mark hides the firmware.
Recognized == machine.loader = "uki" => marks = {}

\* What the running command has put into its context and into the option.
CommandFits ==
    /\ step \in {"resolve", "swap", "post"} =>
          /\ entry = EntryName(target)
          /\ entries[entry] = target
    /\ step \in {"swap", "post"} =>
          /\ requested # None => plugin = requested
          /\ requested = None /\ machine.loader \in Installed /\ Recognized
                => plugin = machine.loader
    /\ step = "post" /\ plugin = machine.loader /\ machine.loader # "refind"
          => once[machine.loader] = entry

IInv == TypeOK /\ NamesFit /\ EntriesThere /\ CommandFits

----------------------------------------------------------------------------
\* An entry has one of the names there are.
LEMMA EntryNameType == \A p \in Digests : EntryName(p) \in Names
BY DEF EntryName, Names

\* A machine is what the configuration says it is.
LEMMA MachineType ==
    ASSUME TypeOK
    PROVE  /\ machine.loader \in Loaders
           /\ machine.manifests \subseteq Loaders /\ machine.builtin \subseteq Loaders
           /\ machine.marks \subseteq Marks /\ machine.first \in Digests
BY MachineAssumption DEF TypeOK, Machine

\* The first states are good ones.
LEMMA InitIInv == Init => IInv
<1> SUFFICES ASSUME Init PROVE IInv
    OBVIOUS
<1>1. /\ machine.loader \in Loaders /\ machine.first \in Digests
      /\ machine.marks \subseteq Marks /\ MarksOf(machine.loader) \subseteq machine.marks
    BY MachineAssumption DEF Init, Machine
<1>2. EntryName(booted) \in Names /\ EntryName(booted) # None
    BY <1>1, EntryNameType, NameAssumption DEF Init, Names
<1>3. TypeOK
    BY <1>1, <1>2 DEF Init, TypeOK, OrNone
<1>4. NamesFit
    BY <1>1, <1>2, NameAssumption DEF Init, NamesFit, Names
<1>5. EntriesThere
    BY <1>1, <1>2, NameAssumption DEF Init, EntriesThere, Names
<1>6. CommandFits
    BY DEF Init, CommandFits
<1> QED BY <1>3, <1>4, <1>5, <1>6 DEF IInv

\* A plugin that is returned is one of the four, and the one asked for or the
\* only one that claims the machine.
LEMMA ResolvedFits ==
    ASSUME IInv, NEW l \in Resolved, requested \in Loaders \cup {None}
    PROVE  /\ l \in Loaders
           /\ requested # None => l = requested
           /\ requested = None /\ machine.loader \in Installed /\ Recognized
                 => l = machine.loader
<1>1. l \in Loaders /\ (requested # None => l = requested)
    BY MachineType DEF Resolved, IInv
<1>2. ASSUME requested = None, machine.loader \in Installed, Recognized
      PROVE  l = machine.loader
    <2>1. Probes(machine.loader)
        BY <1>2 DEF Recognized, Probes, IInv, TypeOK
    <2>2. PICK o \in {"manifest", "builtin"} : [origin |-> o, loader |-> machine.loader] \in Claimants
        BY <1>2, <2>1 DEF Claimants, Installed
    <2>3. PICK c \in Claimants : Claimants = {c} /\ c.loader = l
        BY <1>2 DEF Resolved
    <2>4. c = [origin |-> o, loader |-> machine.loader]
        BY <2>2, <2>3
    <2> QED BY <2>3, <2>4
<1> QED BY <1>1, <1>2

\* What a command that ends leaves is good if the rest is as it was.
LEMMA ReturnIInv ==
    ASSUME IInv, NEW result, Refuse(result)
    PROVE  IInv'
BY DEF Refuse, Return, disk, IInv, TypeOK, OrNone, NamesFit, EntriesThere,
       CommandFits, EntryName, Installed, Recognized

----------------------------------------------------------------------------
\* Every step leads from a good state to a good one.
LEMMA NextIInv == IInv /\ [Next]_vars => IInv'
<1> SUFFICES ASSUME IInv, [Next]_vars PROVE IInv'
    OBVIOUS
<1> USE MachineType, EntryNameType, NameAssumption
<1>1. ASSUME NEW p \in Digests, NEW name \in Loaders \cup {None}, Begin(p, name)
      PROVE  IInv'
    BY <1>1 DEF Begin, disk, IInv, TypeOK, OrNone, NamesFit, EntriesThere,
                CommandFits, EntryName, Installed, Recognized
<1>2. CASE WriteEntry
    <2>1. target \in Digests /\ EntryName(target) \in Names /\ entries \in [Names -> OrNone(Digests)]
        BY <1>2 DEF WriteEntry, IInv, TypeOK
    <2>2. TypeOK'
        BY <1>2, <2>1 DEF WriteEntry, IInv, TypeOK, OrNone
    <2>3. NamesFit'
        BY <1>2, <2>1 DEF WriteEntry, IInv, NamesFit, EntryName
    <2>4. EntriesThere'
        BY <1>2, <2>1 DEF WriteEntry, IInv, TypeOK, OrNone, EntriesThere, EntryName, Names
    <2>5. CommandFits'
        BY <1>2, <2>1 DEF WriteEntry, CommandFits, EntryName
    <2> QED BY <2>2, <2>3, <2>4, <2>5 DEF IInv
<1>3. CASE Resolve
    <2>1. TypeOK /\ requested \in Loaders \cup {None} /\ requested' = requested
        BY <1>3 DEF Resolve, IInv, TypeOK, OrNone
    <2>2. /\ plugin' \in Loaders
          /\ requested # None => plugin' = requested
          /\ requested = None /\ machine.loader \in Installed /\ Recognized
                => plugin' = machine.loader
        BY <1>3, <2>1, ResolvedFits DEF Resolve
    <2>3. TypeOK'
        BY <1>3, <2>1, <2>2 DEF Resolve, disk, TypeOK
    <2>4. NamesFit' /\ EntriesThere'
        BY <1>3 DEF Resolve, disk, IInv, NamesFit, EntriesThere, EntryName
    <2>5. CommandFits'
        BY <1>3, <2>1, <2>2 DEF Resolve, disk, IInv, CommandFits, EntryName, Installed, Recognized
    <2> QED BY <2>3, <2>4, <2>5 DEF IInv
<1>4. CASE Swap
    <2>1. /\ plugin \in Loaders /\ entry \in Names /\ entry # None
          /\ entries[entry] = target /\ target \in Digests /\ target # None
          /\ machine.loader \in Loaders
          /\ once \in [Loaders -> OrNone(Names)] /\ always \in [Loaders -> OrNone(Names)]
        BY <1>4 DEF Swap, IInv, TypeOK, CommandFits, Names, OrNone
    <2>2. TypeOK'
        BY <1>4, <2>1 DEF Swap, SetOneShot, command, IInv, TypeOK, OrNone, MarksOf, Marks
    <2>3. NamesFit'
        BY <1>4 DEF Swap, IInv, NamesFit, EntryName
    <2>4. EntriesThere'
        BY <1>4, <2>1 DEF Swap, SetOneShot, IInv, EntriesThere, EntryName
    <2>5. CommandFits'
        BY <1>4, <2>1 DEF Swap, SetOneShot, command, IInv, CommandFits, EntryName, Installed, Recognized
    <2> QED BY <2>2, <2>3, <2>4, <2>5 DEF IInv
<1>5. CASE Boot
    <2>1. /\ machine.loader \in Loaders /\ always[machine.loader] \in Names
          /\ once[machine.loader] \in OrNone(Names)
          /\ entries \in [Names -> OrNone(Digests)] /\ once \in [Loaders -> OrNone(Names)]
        BY DEF IInv, TypeOK, EntriesThere
    <2>2. PICK n \in Names : booted' = entries[n] /\ booted' # None
        BY <1>5, <2>1 DEF Boot, Opened, NextEntry, OrNone
    <2>3. booted' \in Digests /\ EntryName(booted') = n
        BY <2>1, <2>2 DEF OrNone, IInv, NamesFit
    <2>4. TypeOK'
        BY <1>5, <2>1, <2>3 DEF Boot, Return, IInv, TypeOK, OrNone
    <2>5. NamesFit'
        BY <1>5 DEF Boot, IInv, NamesFit, EntryName
    <2>6. EntriesThere'
        BY <1>5, <2>1, <2>2, <2>3 DEF Boot, IInv, EntriesThere, EntryName
    <2>7. CommandFits'
        BY <1>5 DEF Boot, Return, CommandFits
    <2> QED BY <2>4, <2>5, <2>6, <2>7 DEF IInv
<1>6. CASE ConfirmBoot
    <2>1. EntryName(booted) \in Names /\ machine.loader \in Loaders
          /\ always \in [Loaders -> OrNone(Names)]
        BY DEF IInv, TypeOK
    <2>2. TypeOK'
        BY <1>6, <2>1 DEF ConfirmBoot, command, IInv, TypeOK, OrNone
    <2>3. NamesFit' /\ EntriesThere' /\ CommandFits'
        BY <1>6, <2>1 DEF ConfirmBoot, command, IInv, NamesFit, EntriesThere, CommandFits,
                          EntryName, Installed, Recognized
    <2> QED BY <2>2, <2>3 DEF IInv
<1>7. CASE NoEntry \/ NoPlugin \/ NoBootId \/ Finish \/ Fail
    BY <1>7, ReturnIInv DEF NoEntry, NoPlugin, NoBootId, Finish, Fail
<1>8. CASE UNCHANGED vars
    BY <1>8 DEF vars, IInv, TypeOK, NamesFit, EntriesThere, CommandFits, EntryName, Installed, Recognized
<1> QED BY <1>1, <1>2, <1>3, <1>4, <1>5, <1>6, <1>7, <1>8 DEF Next

LEMMA GoodStates == Spec => []IInv
BY InitIInv, NextIInv, PTL DEF Spec

\* Every state is of the types TypeOK says, in any command, start and
\* confirmation (plugin/boot/mod.rs, mutated/*/checkout.rs, swap.rs).
THEOREM TypeCorrect == Spec => []TypeOK
<1>1. IInv => TypeOK
    BY DEF IInv
<1> QED BY <1>1, GoodStates, PTL

----------------------------------------------------------------------------
\* With such a loader and images an entry starts the deploy it is named after.
LEMMA NamedAfter ==
    ASSUME IInv, Paired, NEW n \in Names, entries[n] # None
    PROVE  entries[n] = n /\ n \in Digests
<1>1. EntryName(entries[n]) = n /\ entries[n] \in Digests
    BY DEF IInv, NamesFit, TypeOK, OrNone
<1> QED BY <1>1 DEF Paired, EntryName

LEMMA InitSelects == Init /\ Paired => Select!Init
<1> SUFFICES ASSUME Init, Paired PROVE Select!Init
    OBVIOUS
<1>1. IInv
    BY InitIInv
<1>2. machine.loader \in Loaders /\ EntryName(booted) \in Names /\ EntryName(booted) # None
      /\ booted \in Digests
    BY <1>1, MachineType, EntryNameType, NameAssumption DEF IInv, TypeOK, Names
<1> QED BY <1>2 DEF Init, Select!Init, Opened

LEMMA NextSelects == IInv /\ IInv' /\ [Next]_vars => (Paired => [Select!Next]_(Select!options))
<1> SUFFICES ASSUME IInv, IInv', [Next]_vars, Paired
             PROVE  [Select!Next]_(Select!options)
    OBVIOUS
<1> DEFINE l == machine.loader
           Steady == booted' = booted /\ Opened(always[l])' = Opened(always[l])
                                      /\ Opened(once[l])' = Opened(once[l])
<1>1. /\ l \in {"systemd-boot", "grub"} /\ l \in Loaders
      /\ always[l] \in Names /\ once[l] \in OrNone(Names)
      /\ entries \in [Names -> OrNone(Digests)]
      /\ once \in [Loaders -> OrNone(Names)] /\ always \in [Loaders -> OrNone(Names)]
      /\ None \notin Names /\ None \notin Digests /\ booted \in Digests
    BY NameAssumption DEF IInv, TypeOK, EntriesThere, Paired, Loaders, Names
<1>2. ASSUME Steady PROVE [Select!Next]_(Select!options)
    BY <1>2 DEF Select!options
<1>3. ASSUME UNCHANGED <<machine, booted, entries, once, always>>
      PROVE  [Select!Next]_(Select!options)
    BY <1>3, <1>2 DEF Opened
<1>4. CASE WriteEntry
    <2>1. target \in Digests /\ EntryName(target) = target /\ target \in Names
        BY <1>4 DEF WriteEntry, IInv, TypeOK, Paired, EntryName, Names
    <2>2. \A n \in Names : entries[n] # None => entries'[n] = entries[n]
        BY <1>1, <1>4, <2>1, NamedAfter DEF WriteEntry
    <2>3. entries[always[l]] # None /\ (once[l] # None => entries[once[l]] # None)
        BY DEF IInv, EntriesThere
    <2>4. Steady
        BY <1>1, <1>4, <2>2, <2>3 DEF WriteEntry, Opened, OrNone
    <2> QED BY <1>2, <2>4
<1>5. CASE Swap
    <2>1. /\ plugin \in Loaders /\ entry \in Names /\ entry # None
          /\ entries[entry] = target /\ target \in Digests
        BY <1>1, <1>5 DEF Swap, IInv, TypeOK, CommandFits
    <2>2. CASE plugin = l
        <3>1. /\ booted' = booted /\ Opened(always[l])' = Opened(always[l])
              /\ Opened(once[l])' = target
            BY <1>1, <1>5, <2>1, <2>2 DEF Swap, SetOneShot, Opened
        <3>2. Select!Arm(target)
            BY <3>1 DEF Select!Arm
        <3> QED BY <2>1, <3>2 DEF Select!Next
    <2>3. CASE plugin # l
        <3>1. Steady
            BY <1>1, <1>5, <2>1, <2>3 DEF Swap, SetOneShot, Opened
        <3> QED BY <1>2, <3>1
    <2> QED BY <2>2, <2>3
<1>6. CASE Boot
    <2>1. booted' \in {Opened(once[l]), Opened(always[l])} \cap Digests
        BY <1>1, <1>6 DEF Boot, NextEntry, Opened, OrNone
    <2>2. Opened(once[l])' = None /\ Opened(always[l])' = Opened(always[l])
        BY <1>1, <1>6 DEF Boot, Opened
    <2>3. Select!Start
        BY <2>1, <2>2 DEF Select!Start
    <2> QED BY <2>3 DEF Select!Next
<1>7. CASE ConfirmBoot
    <2>1. EntryName(booted) \in Names /\ entries[EntryName(booted)] # None
        BY <1>1, EntryNameType DEF IInv, EntriesThere
    <2>2. EntryName(booted) = booted /\ entries[booted] = booted
        BY <1>1, <2>1, NamedAfter DEF Paired, EntryName
    <2>3. /\ booted' = booted /\ Opened(always[l])' = booted
          /\ Opened(once[l])' = Opened(once[l])
        BY <1>1, <1>7, <2>1, <2>2 DEF ConfirmBoot, Opened
    <2>4. Select!Confirm
        BY <2>3 DEF Select!Confirm
    <2> QED BY <2>4 DEF Select!Next
<1>8. CASE Resolve \/ NoEntry \/ NoPlugin \/ NoBootId \/ Finish \/ Fail
           \/ \E p \in Digests, name \in Loaders \cup {None} : Begin(p, name)
    BY <1>3, <1>8 DEF Resolve, NoEntry, NoPlugin, NoBootId, Finish, Fail, Refuse, Begin, disk
<1>9. CASE UNCHANGED vars
    BY <1>3, <1>9 DEF vars
<1> QED BY <1>4, <1>5, <1>6, <1>7, <1>8, <1>9 DEF Next

\* On a machine whose loader has two options, and with images that are not
\* unified, entries, variables and plugins do what the deploy store counts on
\* (boot/mod.rs, plugin/boot/mod.rs, booters/systemd-boot, booters/grub).
THEOREM EntriesSelect == Spec => ImplementsBootSelect
<1>1. Init => (Paired => Select!Init)
    BY InitSelects
<1>2. IInv /\ IInv' /\ [Next]_vars => [Paired => [Select!Next]_(Select!options)]_vars
    BY NextSelects
<1> QED BY <1>1, <1>2, GoodStates, PTL DEF Spec, ImplementsBootSelect

----------------------------------------------------------------------------
\* A command that returns ok has armed its own machine, in any order of
\* commands, starts and confirmations and whatever other loaders have left,
\* also one that its firmware starts if the command names the UKI plugin or no
\* loader has left a mark (plugin/boot/mod.rs:86-109).
THEOREM OkArms == Spec => OkMeansArmed
<1>1. ASSUME IInv, Next, machine.loader \in Installed, machine.loader # "refind",
             machine.loader = "uki" => marks = {} \/ requested = "uki",
             step = "post", outcome' = "ok", requested \in {None, machine.loader}
      PROVE  Opened(once[machine.loader]) = target
    <2>1. plugin = machine.loader
        BY <1>1, MachineType, NameAssumption DEF IInv, CommandFits, Recognized
    <2>2. once[machine.loader] = entry /\ entries[entry] = target /\ entry # None
        BY <1>1, <2>1, NameAssumption DEF IInv, CommandFits, TypeOK, Names
    <2> QED BY <2>2 DEF Opened
<1>2. IInv /\ [Next]_vars =>
         [ /\ machine.loader \in Installed
           /\ machine.loader # "refind"
           /\ machine.loader = "uki" => marks = {} \/ requested = "uki"
           => Armed ]_vars
    BY <1>1 DEF Armed
<1> QED BY <1>2, GoodStates, PTL DEF Spec, OkMeansArmed
=============================================================================
