------------------------------ MODULE MCListings ------------------------------
EXTENDS Listings, Identity
Plain == [requested |-> "PSU", category |-> "PSU", marks |-> {"signal"}, vendor |-> "jarir", seller |-> "none", condition |-> "new",
          region |-> "SA", currency |-> "SAR", vat |-> "vat_included", shipping |-> "paid_shipping", warranty |-> "none",
          price |-> "normal", family |-> TRUE, sane |-> TRUE, other |-> FALSE, trust |-> 90, fresh |-> 90, available |-> TRUE]
\* Titles: the marks of one category, asked for as itself or among the accessories.
Marks == [GPU |-> {"accessory", "laptop", "prebuilt", "soft_system", "bundle", "signal", "phrase"},
          CPU |-> {"prebuilt", "bundle", "combo", "two_parts", "motherboard", "cooler", "cooler_note", "liquid", "tray", "signal"},
          Storage |-> {"prebuilt", "external", "bundle", "wrong_kind", "used", "signal"},
          RAM |-> {"laptop", "prebuilt", "bundle", "accessory", "used", "ddr5"},
          PSU |-> {"ups", "charger", "cable", "bundle", "used", "signal"},
          Case |-> {"prebuilt", "accessory", "bundle", "signal"}, Cooler |-> {"accessory", "bundle", "signal"},
          Motherboard |-> {"bundle", "accessory", "wrong_kind", "b650", "model", "am5", "ddr5"}]
Titles == UNION {{[Plain EXCEPT !.requested = r, !.category = c, !.marks = m, !.condition = q, !.trust = t] :
                     r \in {c, "Accessories"}, m \in SUBSET Marks[c], q \in {"new", "unknown"}, t \in {60, 90}}
                 : c \in DOMAIN Marks}
          \cup {[Plain EXCEPT !.requested = "Accessories", !.category = c, !.trust = t] : c \in {"Accessories", "Fans"}, t \in {60, 90}}
Priced == {[Plain EXCEPT !.currency = c, !.region = r, !.price = x, !.family = f, !.sane = y, !.other = o] : c \in {"SAR", "USD"}, r \in {"SA", "US"},
              x \in {"floor", "hard_low", "low", "normal", "high", "hard_high", "ceiling"}, f \in BOOLEAN, y \in BOOLEAN, o \in BOOLEAN}
Vendors == {"jarir", "amazon", "noon", "microless", "ebay", "newegg", "swappa", "maker"}
Terms == [requested : {"PSU"}, category : {"PSU"}, marks : {{"signal"}}, vendor : Vendors, seller : {"none", "named"},
         condition : {"new", "used"}, region : {"SA", "US"}, currency : {"SAR", "USD"}, vat : {"vat_included", "vat_unknown"},
         shipping : {"paid_shipping", "unknown_shipping"},
         warranty : {"manufacturer_warranty", "seller_warranty", "local_warranty", "none"},
         price : {"normal"}, family : {TRUE}, sane : {TRUE}, other : {FALSE}, trust : {30, 80}, fresh : {90}, available : {TRUE}]
\* With it is listed: itself, or what says less, or one of a trusted shop.
MCBeside(o) ==
    IF o.trust = 60 THEN {o}
    ELSE {[o EXCEPT !.vat = "vat_unknown"], [o EXCEPT !.shipping = "unknown_shipping"],
          [o EXCEPT !.condition = "unknown"], [o EXCEPT !.warranty = "none"],
          [Plain EXCEPT !.vendor = "noon", !.trust = 70, !.region = o.region]}
Offers == {1, 2, 3}
MCOffersOf(k) == IF k = 1 THEN Titles ELSE IF k = 2 THEN Priced ELSE Terms
-----------------------------------------------------------------------------
\* Titles of a kind, with and without their maker, what the source says beside them,
\* and what is given as their model.
None_ == [brand |-> Unsaid, maker |-> Unsaid, model |-> Unsaid, specs |-> <<>>]
Of(kind, said, makers) ==
    {[f \in DOMAIN t \cup {"kind"} \cup DOMAIN None_ |->
         IF f = "kind" THEN kind ELSE IF f = "maker" THEN m ELSE IF f \in DOMAIN t THEN t[f] ELSE None_[f]] : t \in said, m \in makers}
CpuTitles(lines, numbers, suffixes, tails, packages) ==
    [line : lines, number : numbers, suffix : suffixes, tail : tails, package : packages, socket : {Unsaid, "AM5"}]
Cpus == CpuTitles({"Ryzen 7", "Ryzen 5"}, {7700}, {"", "X", "HS", "H"}, {"", "Gaming", "Processor"}, {Unsaid})
        \cup CpuTitles({"R7"}, {7700}, {"", "X", "G"}, {""}, {Unsaid, "BOXED", "TRAY"})
        \cup CpuTitles({"Ryzen 7", "R7"}, {7800}, {"X3D"}, {""}, {Unsaid, "BOXED", "TRAY"})
        \cup CpuTitles({"Core i7", "Threadripper", "Threadripper PRO", "Core Ultra 7", "Ryzen 7 PRO"}, {7700}, {"", "X", "H"}, {"", "Processor"}, {Unsaid})
        \cup CpuTitles({Unsaid}, {Unsaid}, {""}, {""}, {Unsaid})
Gpus == {g \in [line : {"RTX", "RX"}, number : {7700}, suffix : {"", "XT", "XTX"}, vram : {Unsaid, 8, 12}, sku : {Unsaid, "TUF"},
         brand : {Unsaid, "NVIDIA"}, specs : {<<>>, [vram |-> 8]}] :
               (g.specs # <<>> => g.vram # 12 /\ g.brand = Unsaid) /\ (g.brand # Unsaid => g.sku = Unsaid)}
        \cup [line : {Unsaid}, number : {Unsaid}, suffix : {""}, vram : {8}, sku : {Unsaid, "TUF"}, model : {Unsaid, "m1"}]
Drives == {d \in [drive : {"pro990", "t500", Unsaid}, size : {Unsaid, "1TB", "2TB", "2000GB"}, heatsink : BOOLEAN, bus : {Unsaid, "NVMe", "SATA"}] :
               d.heatsink => d.bus # "SATA"}
Rams == {r \in [memory : {Unsaid, "DDR4", "DDR5"}, kit : {<<2, 16>>}, size : {Unsaid, 32}, speed : {Unsaid, 5600, 6000}, laptop : {"no", "laptop"}, series : {Unsaid, "FURY"}] :
               r.laptop = "laptop" => r.speed # 6000}
        \cup [memory : {"DDR5"}, kit : {Unsaid}, size : {16, 32}, speed : {5600}, laptop : {"no", "SODIMM"}, series : {"FURY"}, model : {Unsaid, "m1"}]
Psus == {p \in [watts : {750, 850}, efficiency : {Unsaid, "GOLD", "BRONZE"}, modularity : {Unsaid, "FULLY_MODULAR", "SEMI_MODULAR"},
         pcie5 : BOOLEAN, series : {Unsaid, "RM850X", "MAG_A850GL"}, other : {Unsaid}] :
               p.series # Unsaid => ~p.pcie5 /\ p.efficiency # "BRONZE"}
        \cup [watts : {Unsaid, 850}, efficiency : {"GOLD"}, modularity : {"FULLY_MODULAR"}, pcie5 : {FALSE}, series : {Unsaid}, other : {"w1", "w2"}, model : {Unsaid, "m1"}]
Cases == {c \in [series : {Unsaid, "4000D", "4000X", "5000D"}, airflow : BOOLEAN, rgb : BOOLEAN, form : {Unsaid, "mATX", "ITX", "E-ATX", "full tower"}] :
               c.rgb => ~c.airflow /\ c.form \in {Unsaid, "mATX"}}
Coolers == {c \in [series : {Unsaid, "KRAKEN", "AK620", "NAUTILUS_240"}, type : {Unsaid, "liquid", "air"}, radiator : {Unsaid, 240, 360}, am5 : BOOLEAN] :
               /\ c.type = "air" => c.radiator = Unsaid
               /\ c.series # Unsaid => c.type \in {Unsaid, CoolerType(c)} /\ (c.series = "AK620" => c.radiator = Unsaid) /\ (c.series = "NAUTILUS_240" => c.radiator # 360)}
Boards == {b \in [chipset : {Unsaid, "B650", "X670"}, socket : {Unsaid, "AM5", "AM4"}, memory : {Unsaid, "DDR4", "DDR5"}, form : {Unsaid, "ATX", "mATX"}, series : {Unsaid, "B650_TOMAHAWK_WIFI"}] :
               (b.series # Unsaid => b.chipset = "B650" /\ b.form # "mATX") /\ (b.chipset = Unsaid => b.form = Unsaid)}
MCWordings == [CPU |-> Of("CPU", Cpus, {Unsaid}), GPU |-> Of("GPU", Gpus, {Unsaid, "ASUS"}), Storage |-> Of("Storage", Drives, {Unsaid, "Crucial"}),
  RAM |-> Of("RAM", Rams, {Unsaid, "Corsair"}), PSU |-> Of("PSU", Psus, {Unsaid, "MSI"}), Case |-> Of("Case", Cases, {Unsaid, "Corsair"}),
  Cooler |-> Of("Cooler", Coolers, {Unsaid, "MSI"}), Motherboard |-> Of("Motherboard", Boards, {Unsaid, "MSI"})]
=============================================================================
