------------------------------- MODULE Settings -------------------------------
(***************************************************************************)
(* The settings of a site: a document of values per section, the form it   *)
(* is edited in and the values in effect (package settings, configuration  *)
(* pages of the admin and LoadSettings of package content), as steps on    *)
(* rows.  What of it is cached is in SiteCache.                            *)
(***************************************************************************)
EXTENDS Steps

CONSTANTS Definition,  \* Definition[section][key]: its control
          Numeral,     \* the number a word stands for, of those that stand for one
          Printed      \* the word a number is printed as

\* A control: its kind, the options of a select, what is in effect without a value,
\* whether the form shows it and whether only an option counts.
Control == [kind |-> "text", options |-> <<>>, unset |-> "", shown |-> TRUE, checked |-> FALSE]
Toggle(b) == [Control EXCEPT !.kind = "toggle", !.unset = b]
Choice(kind, options, unset) == [Control EXCEPT !.kind = kind, !.options = options, !.unset = unset]

\* Printing a number and reading it gives it back.
ASSUME SettingsAssumption == \A n \in DOMAIN Printed : Printed[n] \in DOMAIN Numeral /\ Numeral[Printed[n]] = n

\* A value: a text, a number, a truth value or null.
Null == <<"null">>
SettingText(w) == <<"text", w>>
Boolean(b) == <<"bool", b>>
ValueIn(data, key) == IF key \in DOMAIN data THEN data[key] ELSE Null

LoadSection(section, rows) ==
  LET r == {q \in rows : q[1] = "setting" /\ q[2] = section}
  IN IF r = {} THEN <<>> ELSE (CHOOSE q \in r : TRUE)[3]

----------------------------------------------------------------------------
\* What is in effect

Truth(v) == \/ v = Boolean(TRUE) \/ v \in {SettingText("true"), SettingText("1")}
            \/ v[1] = "number" /\ v[2] # 0
BoolDefault(v, unset) == IF v = Null THEN unset ELSE Truth(v)

\* Those of the content are taken for unset unless they are truth values.
SettingsBool(v, unset) == IF v[1] = "bool" THEN v[2] ELSE unset

FormFieldValue(v) ==
  CASE v[1] = "null" -> "" [] v[1] = "number" -> Printed[v[2]] [] v[1] = "text" -> v[2]
    [] v[1] = "bool" -> IF v[2] THEN "true" ELSE "false"

IntDefault(v, unset) ==
  IF v[1] = "number" THEN v[2] ELSE IF v[1] = "text" /\ v[2] \in DOMAIN Numeral THEN Numeral[v[2]] ELSE unset

NormalizeListLimit(n) ==
  IF n \in {25, 50, 75, 100, 200, 500} THEN n ELSE IF n > 500 THEN 500 ELSE 25
PageCacheTTL(n) == IF n < 30 THEN 30 ELSE IF n > 86400 THEN 86400 ELSE n

NormalizeDisplayMode(w) ==
  IF w \in {"yes", "true", "1", "on"} THEN "yes" ELSE IF w \in {"no", "false", "0", "off"} THEN "no" ELSE "inherit"
DisplayMode(v, unset) ==
  IF v = Null THEN unset ELSE NormalizeDisplayMode(IF v[1] = "bool" THEN (IF v[2] THEN "yes" ELSE "no") ELSE FormFieldValue(v))

CategoryFieldSelectedID(v) == LET n == IntDefault(v, 0) IN IF n > 0 THEN n ELSE 0

\* Meta tags used to be among the general settings.
LegacySEOMetaKeys == {"site_meta_description", "site_twitter_card"}
StringWithLegacy(key, rows) ==
  LET own == FormFieldValue(ValueIn(LoadSection("seo", rows), key))
  IN IF own # "" THEN own ELSE FormFieldValue(ValueIn(LoadSection("general", rows), key))

InEffect(section, key, rows) ==
  LET c == Definition[section][key]
      v == ValueIn(LoadSection(section, rows), key)
      said == IF section = "seo" /\ key \in LegacySEOMetaKeys THEN StringWithLegacy(key, rows) ELSE FormFieldValue(v)
  IN CASE key = "site_offline" -> Truth(v) \/ Truth(ValueIn(LoadSection(section, rows), "maintenance_mode"))
       [] key = "default_list_limit" -> NormalizeListLimit(IntDefault(v, c.unset))
       [] key = "page_cache_ttl_seconds" -> PageCacheTTL(IntDefault(v, c.unset))
       [] c.kind = "toggle" /\ key # "site_offline" ->
            IF section = "content" THEN SettingsBool(v, c.unset) ELSE BoolDefault(v, c.unset)
       [] c.kind = "display" -> DisplayMode(v, c.unset) # "no"
       [] c.kind = "category" -> CategoryFieldSelectedID(v)
       [] OTHER -> IF said = "" \/ (c.checked /\ said \notin ToSet(c.options)) THEN c.unset ELSE said

----------------------------------------------------------------------------
\* The form

HasStoredValue(data, key) == ValueIn(data, key) \notin {Null, SettingText("")}

MergeLegacySEOMeta(seo, general) ==
  LET legacy == {k \in LegacySEOMetaKeys : ~HasStoredValue(seo, k) /\ HasStoredValue(general, k)}
  IN [k \in legacy |-> general[k]] @@ seo

Document(section, rows) ==
  LET data == LoadSection(section, rows)
  IN IF section = "seo" THEN MergeLegacySEOMeta(data, LoadSection("general", rows)) ELSE data

\* The option that is marked; a browser submits the first if none is.
Marked(options, v) ==
  LET said == FormFieldValue(v) IN
  CASE said = "true" /\ "yes" \in ToSet(options) -> "yes"
    [] said = "false" /\ "no" \in ToSet(options) -> "no"
    [] OTHER -> said
NormalizeSelectField(options, v) == IF Marked(options, v) \in ToSet(options) THEN Marked(options, v) ELSE options[1]

RenderCategorySelect(v) == IF CategoryFieldSelectedID(v) = 0 THEN "" ELSE Printed[CategoryFieldSelectedID(v)]

\* What the form of a document submits when nothing is changed: an unticked box nothing.
RenderForm(section, data) ==
  LET def == Definition[section]
      ticked(k) == def[k].kind # "toggle" \/ Truth(ValueIn(data, k))
  IN [k \in {x \in DOMAIN def : def[x].shown /\ ticked(x)} |->
       LET v == ValueIn(data, k) IN
       CASE def[k].kind = "toggle" -> "true"
         [] def[k].kind = "category" -> RenderCategorySelect(v)
         [] def[k].options # <<>> -> NormalizeSelectField(def[k].options, v)
         [] OTHER -> FormFieldValue(v)]

\* A word that reads as a number becomes one, except where the schema says a string.
Verify(w) == IF w \in DOMAIN Numeral THEN <<"number", Numeral[w]>> ELSE SettingText(w)
StringProperty(def, k) == def[k].kind \in {"text", "select", "display"}

\* A schema one of whose types is a list, as that of a category that may be null, is not
\* read for truth values at all.
BooleanPropertyKeys(def) ==
  IF \E k \in DOMAIN def : def[k].kind = "category" /\ def[k].checked THEN {}
  ELSE {k \in DOMAIN def : def[k].kind = "toggle"}
FormValueBool(w) == w \in {"1", "true", "on", "yes"}
CategoryValue(c, w) ==
  IF w \in DOMAIN Numeral /\ Numeral[w] > 0 THEN <<"number", Numeral[w]>> ELSE IF c.checked THEN Null ELSE <<"number", 0>>

FormDataFromRequest(section, form) ==
  LET def == Definition[section]
      bools == BooleanPropertyKeys(def)
  IN [k \in DOMAIN form \cup bools |->
       CASE k \in bools -> Boolean(k \in DOMAIN form /\ FormValueBool(form[k]))
         [] k \notin bools /\ def[k].kind = "category" -> CategoryValue(def[k], form[k])
         [] k \notin bools /\ StringProperty(def, k) -> SettingText(form[k])
         [] OTHER -> Verify(form[k])]

\* The whole section is written.
SaveSection(section, form, rows) ==
  Save({r \in rows : r[1] = "setting" /\ r[2] = section}, <<"setting", section, FormDataFromRequest(section, form)>>)
Configuration(section, form, rows) ==
  IF section \notin DOMAIN Definition THEN <<Return>> ELSE <<SaveSection(section, form, rows)>>

\* What a section is after its form has been submitted as it is.
Resubmitted(section, rows) ==
  LET s == SaveSection(section, RenderForm(section, Document(section, rows)), rows) IN (rows \ s.drop) \cup s.add

\* The settings of a section that somebody has saved, there or, for meta tags, where they used
\* to be, and that the form can show.
ShownAsSaved(section, rows) ==
  LET def == Definition[section]
      own(k) == ValueIn(LoadSection(section, rows), k)
      former(k) == ValueIn(LoadSection("general", rows), k)
      kept(k) == IF section = "seo" /\ k \in LegacySEOMetaKeys /\ own(k) \in {Null, SettingText("")} THEN former(k) ELSE own(k)
      offered(k) == def[k].options = <<>> \/ FormFieldValue(kept(k)) \in ToSet(def[k].options)
  IN {k \in DOMAIN def : def[k].shown /\ kept(k) # Null /\ (def[k].kind \in {"toggle", "display"} \/ offered(k))}

================================================================================
