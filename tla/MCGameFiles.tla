---------------------------- MODULE MCGameFiles ----------------------------
(* Instances of GameFiles for TLC.                                         *)
EXTENDS GameFiles, TLC

CONSTANTS one, two, x, y, z

Plain(g) == [game |-> g, inner |-> None]
InZip(g, stem, ext) == [game |-> g, inner |-> [stem |-> stem, ext |-> ext]]
Rom(stem, ext) == [stem |-> stem, ext |-> ext]

OnDisk(roms) == [n \in RomNames |-> IF n \in DOMAIN roms THEN roms[n] ELSE None]
NoSaves == [b \in Bases |-> [k \in Kinds |-> None]]
SavesOf(base, g, made) ==
  [NoSaves EXCEPT ![base] = [k \in Kinds |-> IF k \in DOMAIN made THEN [by |-> g, at |-> made[k]]
                                             ELSE None]]
All == [k \in Kinds |-> "last"]
Both(theSaves, others) ==
  [b \in Bases |-> [k \in Kinds |-> IF theSaves[b][k] # None THEN theSaves[b][k] ELSE others[b][k]]]

Folder(roms, theSaves, theOld, theOrder) ==
  [rom |-> OnDisk(roms), saves |-> theSaves, old |-> theOld, order |-> theOrder]

(* A zip whose ROM has its name or another, is called .gba or .agb; saves  *)
(* that an older build left beside the ROM.                                *)
MCDisks ==
  {Folder(Rom(x, "gbz") :> Plain(one) @@ Rom(y, "zip") :> InZip(two, y, "gba"),
          Both(SavesOf(Base(x), one, "sav" :> "last"), SavesOf(Base(y), two, All)),
          SavesOf(Base(x), one, "sav" :> "before" @@ "state" :> "before"),
          <<Rom(y, "zip"), Rom(x, "gbz")>>),
   Folder(Rom(x, "gba") :> Plain(one) @@ Rom(z, "zip") :> InZip(two, y, "agb"),
          Both(SavesOf(Base(x), one, All),
               SavesOf(Rom(y, "agb"), two,
                       "sav" :> "before" @@ "settings" :> "last" @@ "state" :> "last")),
          NoSaves,
          <<Rom(x, "gba")>>)}

(* These folders are such as the theorems about saves are for.             *)
ASSUME InstanceAssumption == OwnNames /\ FoundAtFirst /\ NewNamesFree
=============================================================================
