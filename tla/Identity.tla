------------------------------- MODULE Identity -------------------------------
(***************************************************************************)
(* Which product a listing is of (pricing_normalization.py) and whether it  *)
(* is the one that was searched for (pricing_ingestion.py).  Of a title the *)
(* marks are kept that the expressions look for; what they read into it     *)
(* that nobody said is kept as well.  Two listings of a kind are normalized *)
(* beside each other, and the second is offered to a search for the first.  *)
(***************************************************************************)
EXTENDS Integers, Sequences, FiniteSets

CONSTANTS
    Unsaid,    \* what a title does not say
    Wordings   \* by kind, the titles

VARIABLE pair

Or(x, y) == IF x = Unsaid THEN y ELSE x
\* What the source says of a product goes before what is read in its title.
Given(t, field, read) == IF field \in DOMAIN t.specs THEN t.specs[field] ELSE read

Partners == {"ASUS", "MSI", "Gigabyte", "Zotac", "PNY"}
NormalizeBrand(t) ==
    IF t.kind = "GPU" /\ t.maker \in Partners /\ t.brand \in {Unsaid, "NVIDIA"} THEN t.maker
    ELSE IF t.brand # Unsaid THEN t.brand
    ELSE IF t.maker # Unsaid THEN t.maker
    ELSE IF t.kind = "GPU" /\ t.line \in {"RTX", "GTX"} THEN "NVIDIA"
    ELSE IF t.kind = "GPU" /\ t.line = "RX" THEN "AMD"
    ELSE "Unknown"

\* The words that are left of a title: its brand, the kind of memory and what the
\* kind is called are not among them.
NormalizeModel(t, brand) ==
    IF t.model # Unsaid THEN [given |-> t.model]
    ELSE [f \in DOMAIN t \ {"kind", "brand", "memory", "tail", "specs", "model"} |->
             IF <<f, t[f]>> \in {<<"maker", brand>>, <<"bus", "NVMe">>} THEN Unsaid ELSE t[f]]
-----------------------------------------------------------------------------
(* Processors.  Blanks are gone when a model number is looked for, so that  *)
(* the number goes on into the word behind it.                              *)
Initial(word) == CASE word = "Gaming" -> "G" [] word = "Processor" -> "P" [] OTHER -> ""
RyzenSuffix(t) ==
    CASE t.suffix \in {"HS", "HX"} -> "H" [] t.suffix = "GT" -> "G"
      [] t.suffix = "" -> IF Initial(t.tail) \in {"X", "G", "U", "H", "F"} THEN Initial(t.tail) ELSE ""
      [] OTHER -> t.suffix
CpuModelKey(t) ==
    CASE t.number = Unsaid -> Unsaid
      [] t.number = 7800 /\ t.suffix = "X3D" -> <<"AMD", "Ryzen 7", 7800, "X3D", "">>
      [] t.line = "R7" -> IF t.suffix \in {"", "X", "XT", "X3D"} THEN <<"AMD", "Ryzen 7", t.number, t.suffix, "">> ELSE Unsaid
      [] t.line \in {"Ryzen 5", "Ryzen 7", "Ryzen 7 PRO"} -> <<"AMD", t.line, t.number, RyzenSuffix(t), "">>
      [] t.line = "Core Ultra 7" -> <<"Intel", t.line, t.number, IF t.suffix = "" THEN Initial(t.tail) ELSE t.suffix, "">>
      [] t.line \in {"Threadripper", "Threadripper PRO"} -> <<"AMD", "Threadripper", t.number, t.suffix, t.tail>>
      [] t.line = "Core i7" -> <<"Intel", t.line, t.number, t.suffix, t.tail>>
      [] OTHER -> Unsaid
ReadCpu(t) ==
    [cpu |-> CpuModelKey(t), socket |-> Given(t, "socket", t.socket), package |-> t.package]
CpuBrand(brand, s) == IF s.cpu # Unsaid /\ brand = "Unknown" THEN s.cpu[1] ELSE brand
Boxed(brand, s) == <<"CPU", brand, Tail(s.cpu), s.package>>
KeyOfCpu(brand, s) ==
    <<"CPU", brand, IF s.cpu[1] = brand THEN "" ELSE s.cpu[1], Tail(s.cpu), s.package = "TRAY">>
-----------------------------------------------------------------------------
(* Graphics cards.  XT is looked for before XTX.                            *)
GpuFamily(t) ==
    IF t.number = Unsaid THEN Unsaid
    ELSE <<t.line, t.number, IF t.line = "RX" /\ t.suffix = "XTX" THEN "XT" ELSE t.suffix>>
ReadGpu(t) ==
    [vram |-> Given(t, "vram", t.vram), gpu |-> Given(t, "gpu", GpuFamily(t)),
     sku |-> IF "gpu" \in DOMAIN t.specs THEN Unsaid ELSE t.sku]
FamilyOnly(brand, s) == <<"GPU", brand, s.gpu, s.sku>>
KeyOfGpu(brand, s) == <<"GPU", brand, s.gpu, s.sku, s.vram>>
-----------------------------------------------------------------------------
(* Storage.  Two models count only together with their maker's name.        *)
StorageNames == [pro990 |-> "Samsung", sn850x |-> "WD", kc3000 |-> "Kingston", t500 |-> "Crucial", nm790 |-> "Lexar"]
StorageModelKey(t) ==
    IF /\ t.drive \in DOMAIN StorageNames /\ t.size # Unsaid
       /\ t.drive \in {"t500", "nm790"} => t.maker = StorageNames[t.drive]
    THEN <<StorageNames[t.drive], t.drive, t.size>> ELSE Unsaid
Gigabytes(size) == CASE size = "2TB" -> 2048 [] size = "2000GB" -> 2000 [] size = "1TB" -> 1024 [] OTHER -> Unsaid
ReadStorage(t) ==
    [drive |-> StorageModelKey(t), capacity |-> Given(t, "capacity", Gigabytes(t.size)),
     nvme |-> IF StorageModelKey(t) # Unsaid THEN "NVMe" ELSE Given(t, "nvme", Unsaid), heatsink |-> t.heatsink]
StorageBrand(brand, s) == IF s.drive # Unsaid /\ brand = "Unknown" THEN s.drive[1] ELSE brand
KeyOfStorage(brand, s) ==
    <<"Storage", brand, IF s.drive[1] = brand THEN "" ELSE s.drive[1], Tail(s.drive), s.heatsink>>
-----------------------------------------------------------------------------
(* Memory.  A model that the source gives is a part's number.              *)
RamCapacity(t) == IF t.kit # Unsaid THEN t.kit[1] * t.kit[2] ELSE t.size
RamFamily(t) ==
    IF Unsaid \in {t.memory, RamCapacity(t), t.speed} \/ t.laptop = "SODIMM" THEN Unsaid
    ELSE <<t.memory, RamCapacity(t), t.speed>>
ReadRam(t) ==
    [memory |-> Given(t, "memory", t.memory), capacity |-> Given(t, "capacity", RamCapacity(t)),
     speed |-> Given(t, "speed", t.speed), laptop |-> t.laptop # "no", ram |-> RamFamily(t)]
SeriesOf(t) == IF t.model # Unsaid THEN Unsaid ELSE t.series
KeyOfRam(t, brand, s) ==
    IF brand # "Unknown" /\ SeriesOf(t) # Unsaid THEN <<"RAM", brand, SeriesOf(t), s.memory, s.capacity, s.speed>>
    ELSE <<"RAM", s.memory, s.capacity, s.speed>>
-----------------------------------------------------------------------------
(* Power supplies.  Some models are known to be gold and modular.           *)
GoldModular == {"RM850X", "FOCUS_GX", "MAG_A850GL"}
Efficiency(t) == Or(t.efficiency, IF t.series \in GoldModular THEN "GOLD" ELSE Unsaid)
Modularity(t) == Or(t.modularity, IF t.series \in GoldModular THEN "FULLY_MODULAR" ELSE Unsaid)
Pcie5(t) == t.pcie5 \/ t.series = "MAG_A850GL"
PsuFamily(t) ==
    IF Unsaid \in {t.watts, Efficiency(t), Modularity(t)} THEN Unsaid ELSE <<t.watts, Efficiency(t), Modularity(t)>>
ReadPsu(t) ==
    [watts |-> Given(t, "watts", t.watts), efficiency |-> Given(t, "efficiency", Efficiency(t)),
     modularity |-> Given(t, "modularity", Modularity(t)), pcie5 |-> Pcie5(t), psu |-> PsuFamily(t)]
PsuModel(t) == IF t.model # Unsaid THEN t.model ELSE Or(t.series, t.other)
Suffix(s) == IF s.pcie5 THEN "PCIE5" ELSE s.modularity
KeyOfPsu(t, brand, s) ==
    IF PsuModel(t) # Unsaid THEN <<"PSU", brand, PsuModel(t), s.watts, s.efficiency, Suffix(s)>>
    ELSE <<"PSU", s.watts, s.efficiency, s.modularity>>
-----------------------------------------------------------------------------
(* Cases.  "ATX" is part of every smaller form's name but ITX.              *)
CaseFamily(t) ==
    CASE t.series = "4000D" /\ t.airflow /\ t.rgb -> "4000D RGB Airflow V2"
      [] t.series = "4000D" /\ t.airflow -> "4000D Airflow"
      [] t.series = "4000X" -> "4000X RGB"
      [] t.series = "5000D" -> IF t.airflow THEN "5000D Airflow" ELSE "5000D"
      [] OTHER -> Unsaid
CaseForms(t) ==
    CASE t.form = "E-ATX" -> {"E-ATX", "ATX", "mATX", "ITX"}
      [] t.form \in {"ATX", "mATX", "mid tower", "full tower"} -> {"ATX", "mATX", "ITX"}
      [] t.form = "ITX" -> {"ITX"}
      [] OTHER -> {}
CaseType(t) ==
    CASE t.form = "full tower" -> "full_tower" [] t.form \in {"mid tower", "ATX", "mATX", "E-ATX"} -> "mid_tower"
      [] t.form = "ITX" -> "mini_itx" [] OTHER -> Unsaid
ReadCase(t) ==
    LET known == CaseFamily(t) = "4000D Airflow"
    IN  [case |-> CaseFamily(t),
         forms |-> IF CaseForms(t) = {} /\ known THEN {"ATX", "mATX", "ITX"} ELSE CaseForms(t),
         type |-> IF CaseType(t) = Unsaid /\ known THEN "mid_tower" ELSE CaseType(t)]
KeyOfCase(brand, s) == <<"Case", brand, s.case, "ATX" \in s.forms, s.type>>
-----------------------------------------------------------------------------
(* Coolers.                                                                 *)
Liquid == {"KRAKEN", "H100I", "NAUTILUS_240"}
Towers == {"PEERLESS_ASSASSIN", "AK620"}
CoolerType(t) ==
    CASE t.series \in Liquid -> "liquid" [] t.series \in Towers -> "air" [] OTHER -> t.type
Radiator(t) == Or(t.radiator, IF t.series \in Liquid THEN 240 ELSE Unsaid)
CoolerAm5(t) == t.am5 \/ t.series \in {"KRAKEN", "H100I", "PEERLESS_ASSASSIN", "AK620"}
CoolerFamily(t) ==
    CASE CoolerType(t) = "liquid" /\ Radiator(t) # Unsaid -> <<"liquid", Radiator(t), CoolerAm5(t)>>
      [] CoolerType(t) = "air" -> <<"air", t.series \in Towers, CoolerAm5(t)>>
      [] OTHER -> Unsaid
ReadCooler(t) ==
    [type |-> Given(t, "type", CoolerType(t)), radiator |-> Given(t, "radiator", Radiator(t)), cooler |-> CoolerFamily(t)]
KeyOfCooler(t, brand, s) ==
    IF brand # "Unknown" /\ SeriesOf(t) # Unsaid THEN <<"Cooler", brand, SeriesOf(t), s.type, s.radiator>>
    ELSE <<"Cooler", s.cooler>>
-----------------------------------------------------------------------------
(* Motherboards.                                                            *)
BoardForms == [B650_TOMAHAWK_WIFI |-> "ATX", PRIME_B650M_A_WIFI_II |-> "mATX"]
Known650(t) == t.chipset = "B650" /\ t.series # Unsaid
BoardSocket(t) == Or(t.socket, IF Known650(t) THEN "AM5" ELSE Unsaid)
BoardMemory(t) == Or(t.memory, IF Known650(t) THEN "DDR5" ELSE Unsaid)
BoardForm(t) == Or(t.form, IF t.series # Unsaid THEN BoardForms[t.series] ELSE Unsaid)
BoardFamily(t) ==
    IF t.chipset = "B650" /\ BoardSocket(t) = "AM5" /\ BoardMemory(t) = "DDR5" THEN "B650" ELSE Unsaid
ReadBoard(t) ==
    [socket |-> Given(t, "socket", BoardSocket(t)), chipset |-> Given(t, "chipset", t.chipset),
     memory |-> Given(t, "memory", BoardMemory(t)), form |-> Given(t, "form", BoardForm(t)), board |-> BoardFamily(t)]
KeyOfBoard(t, brand, s) ==
    IF brand # "Unknown" /\ t.series # Unsaid THEN <<"Motherboard", brand, t.series, s.socket, s.memory, s.form>>
    ELSE <<"Motherboard", s.chipset, s.socket, s.memory>>
-----------------------------------------------------------------------------
InferSpecs(t) ==
    CASE t.kind = "CPU" -> ReadCpu(t) [] t.kind = "GPU" -> ReadGpu(t) [] t.kind = "Storage" -> ReadStorage(t)
      [] t.kind = "RAM" -> ReadRam(t) [] t.kind = "PSU" -> ReadPsu(t) [] t.kind = "Case" -> ReadCase(t)
      [] t.kind = "Cooler" -> ReadCooler(t) [] OTHER -> ReadBoard(t)
BrandOf(t) ==
    CASE t.kind = "CPU" -> CpuBrand(NormalizeBrand(t), ReadCpu(t))
      [] t.kind = "Storage" -> StorageBrand(NormalizeBrand(t), ReadStorage(t))
      [] OTHER -> NormalizeBrand(t)
\* What a product of a kind is recognized by.
Recognized == [CPU |-> "cpu", GPU |-> "gpu", Storage |-> "drive", RAM |-> "ram", PSU |-> "psu", Case |-> "case",
               Cooler |-> "cooler", Motherboard |-> "board"]
Told == {"vram", "socket", "capacity", "speed", "chipset", "watts"}
Unrecognized(t, brand, s) ==
    <<"other", t.kind, brand, NormalizeModel(t, brand), [f \in Told \cap DOMAIN s |-> s[f]]>>
CanonicalKey(t, brand, s) ==
    IF s[Recognized[t.kind]] = Unsaid THEN Unrecognized(t, brand, s)
    ELSE CASE t.kind = "CPU" -> KeyOfCpu(brand, s) [] t.kind = "GPU" -> KeyOfGpu(brand, s)
           [] t.kind = "Storage" -> KeyOfStorage(brand, s) [] t.kind = "RAM" -> KeyOfRam(t, brand, s)
           [] t.kind = "PSU" -> KeyOfPsu(t, brand, s) [] t.kind = "Case" -> KeyOfCase(brand, s)
           [] t.kind = "Cooler" -> KeyOfCooler(t, brand, s) [] OTHER -> KeyOfBoard(t, brand, s)
-----------------------------------------------------------------------------
(* What is searched for is a title as well; an offer that is of something   *)
(* else is turned away.                                                     *)
Refuses(condition, reason) == IF condition THEN {reason} ELSE {}
Doubted(asked, offered, reason) == Refuses(Unsaid \notin {asked, offered} /\ offered # asked, reason)
Differs(asked, offered, reason) == Refuses(asked # Unsaid /\ offered # asked, reason)
GenericStorageRejections(q, t, s) ==
    Refuses(q.size = "2TB" /\ s.capacity # 2048, "capacity")
    \cup Refuses(q.bus = "NVMe" /\ s.nvme # "NVMe", "nvme")
    \cup Refuses(t.bus = "SATA", "sata")
    \cup Refuses(s.drive = Unsaid, "unknown model")
StorageRejections(q, t, s) ==
    CASE StorageModelKey(q) = Unsaid -> GenericStorageRejections(q, t, s)
      [] s.drive # StorageModelKey(q) -> {"model"}
      [] OTHER -> Refuses(s.heatsink /\ ~q.heatsink, "heatsink")
RamRejections(q, s) ==
    CASE RamFamily(q) = Unsaid -> {}
      [] s.ram # RamFamily(q) -> {"family"}
      [] OTHER -> Refuses(s.laptop, "laptop")
PsuRejections(q, s) ==
    CASE PsuFamily(q) = Unsaid -> {}
      [] s.psu # PsuFamily(q) -> {"family"}
      [] OTHER -> Refuses(s.watts # 850, "wattage")
\* A radiator is compared when its size is said; a cooler of air passes for any.
CoolerExact(q, s) == Refuses(CoolerFamily(q) # s.cooler, "family")
CoolerRejections(q, s) ==
    IF s.type = "liquid" /\ q.radiator # Unsaid /\ s.radiator # q.radiator THEN {"radiator"}
    ELSE Refuses(/\ Unsaid \notin {CoolerFamily(q), s.cooler}
                 /\ s.cooler[1] # "air"
                 /\ <<CoolerFamily(q)[1], CoolerFamily(q)[2]>> # <<s.cooler[1], s.cooler[2]>>, "family")
BoardRejections(q, s) ==
    CASE BoardFamily(q) # Unsaid /\ s.board # BoardFamily(q) -> {"family"}
      [] s.socket # "AM5" -> {"socket"} [] s.chipset # "B650" -> {"chipset"}
      [] OTHER -> Refuses(s.memory # "DDR5", "memory")
Rejections(q, t, s) ==
    CASE q.kind = "GPU" -> Differs(GpuFamily(q), s.gpu, "family")
      [] q.kind = "CPU" -> Differs(CpuModelKey(q), s.cpu, "model")
      [] q.kind = "Storage" -> StorageRejections(q, t, s)
      [] q.kind = "RAM" -> RamRejections(q, s)
      [] q.kind = "PSU" -> PsuRejections(q, s)
      [] q.kind = "Case" -> Differs(CaseFamily(q), s.case, "model")
      [] q.kind = "Cooler" -> CoolerRejections(q, s)
      [] OTHER -> BoardRejections(q, s)
-----------------------------------------------------------------------------
Unread == <<Unsaid, Unsaid>>
IdentityInit ==
    \E kind \in DOMAIN Wordings : \E a, b \in Wordings[kind] :
        pair = [stage |-> "listed", of |-> <<a, b>>, specs |-> Unread, key |-> Unread, rejections |-> {}]
Infer ==
    /\ pair.stage = "listed"
    /\ pair' = [pair EXCEPT !.stage = "read", !.specs = [i \in 1..2 |-> InferSpecs(pair.of[i])]]
NormalizeRecords ==
    /\ pair.stage = "read"
    /\ pair' = [pair EXCEPT !.stage = "keyed",
                            !.key = [i \in 1..2 |-> CanonicalKey(pair.of[i], BrandOf(pair.of[i]), pair.specs[i])]]
Search ==
    /\ pair.stage = "keyed"
    /\ pair' = [pair EXCEPT !.stage = "searched", !.rejections = Rejections(pair.of[1], pair.of[2], pair.specs[2])]
IdentityDone == pair.stage = "searched" /\ UNCHANGED pair
IdentityNext == Infer \/ NormalizeRecords \/ Search \/ IdentityDone
-----------------------------------------------------------------------------
(* What a title says that makes it another product, and what of that the    *)
(* expressions run together.                                                *)
Essential == [CPU |-> {"line", "number", "suffix"}, GPU |-> {"line", "number", "suffix", "vram", "sku"},
              Storage |-> {"drive", "size", "heatsink"}, RAM |-> {"memory", "size", "speed"},
              PSU |-> {"watts", "efficiency", "modularity"}, Case |-> {"series"},
              Cooler |-> {"type", "radiator"}, Motherboard |-> {"chipset", "socket", "memory"}]
RunTogether == {<<"line", {"R7", "Ryzen 7"}>>, <<"line", {"Threadripper", "Threadripper PRO"}>>,
                <<"suffix", {"H", "HS"}>>, <<"suffix", {"H", "HX"}>>, <<"suffix", {"HS", "HX"}>>,
                <<"suffix", {"G", "GT"}>>, <<"suffix", {"XT", "XTX"}>>}
Contradict(a, b, fields) ==
    \E f \in fields : Unsaid \notin {a[f], b[f]} /\ a[f] # b[f] /\ <<f, {a[f], b[f]}>> \notin RunTogether
Recognizable(i) == pair.stage \notin {"listed"} /\ pair.specs[i][Recognized[pair.of[i].kind]] # Unsaid
\* The number of a processor goes on into the next word; a supply that knows PCIe 5
\* is not told from another by its cables.
Swallows(t) == t.kind = "CPU" /\ Recognizable(1) /\ Initial(t.tail) # ""
Alike(a, b) == a.kind = "PSU" /\ Pcie5(a) /\ Pcie5(b)
SameKey == pair.stage \in {"keyed", "searched"} /\ Recognizable(1) /\ Recognizable(2) /\ pair.key[1] = pair.key[2]

\* Titles that are taken for one product do not say that they are two: neither another
\* chip, nor more memory, another drive, size, speed, wattage, radiator or socket.  What
\* is stored as one product has one set of specifications, prices and offers.
SameKeySameFit ==
    SameKey => LET a == pair.of[1] b == pair.of[2]
               IN  \/ Swallows(a) \/ Swallows(b)
                   \/ ~Contradict(a, b, Essential[a.kind] \ (IF Alike(a, b) THEN {"modularity"} ELSE {}))
\* Words that name nothing (the box, the bus, what the kind is called) do not make two
\* products of one.
Idle == {"tail", "bus", "socket", "brand"}
WordingDoesNotSplit ==
    LET a == pair.of[1] b == pair.of[2]
    IN  /\ pair.stage = "keyed" /\ Recognizable(1) /\ Recognizable(2) /\ ~Swallows(a) /\ ~Swallows(b)
        /\ \A f \in DOMAIN a : f \in Idle \/ a[f] = b[f] \/ (f = "package" /\ "TRAY" \notin {a[f], b[f]})
        /\ BrandOf(a) = BrandOf(b)
        => pair.key[1] = pair.key[2]
\* Who searches for a known product gets no other: an offer that passes agrees with all
\* that is told of the one that is sought.  Coolers pass for any but
\* those of liquid whose radiator is told.
Sought == [Essential EXCEPT !.GPU = {"line", "number", "suffix"}, !.Storage = {"drive", "size"}]
GateKeepsTarget ==
    LET a == pair.of[1] b == pair.of[2]
    IN  pair.stage = "searched" /\ pair.rejections = {} /\ Recognizable(1)
        => \/ ~Contradict(a, b, Sought[a.kind]) \/ Swallows(a) \/ Swallows(b)
           \/ a.kind = "Cooler" /\ ~(CoolerType(b) = "liquid" /\ Radiator(b) # Unsaid)
\* And gets the one that is sought: another listing of it is turned away only when it is
\* a supply of other than 850 W or memory of a laptop.
OwnIsFound ==
    LET a == pair.of[1] b == pair.of[2]
    IN  pair.stage = "searched" /\ SameKey /\ ~Alike(a, b)
        => pair.rejections \subseteq {"wattage", "laptop"}
\* Prices are kept by product, and offers are searched for by it: what is stored under a
\* product's key and what a search for it brings are listings of that product.
ListingsAreOfTheirProduct == SameKeySameFit /\ WordingDoesNotSplit /\ GateKeepsTarget /\ OwnIsFound
=============================================================================
