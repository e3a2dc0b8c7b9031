--------------------------------- MODULE Media ---------------------------------
(***************************************************************************)
(* The media library: rows of the database that stand for files on disk,   *)
(* and the smaller copies ("styles") made of pictures next to them         *)
(* (src/internal/media, and the admin handlers of media files and          *)
(* folders).  Files are rows too.                                          *)
(***************************************************************************)
EXTENDS Integers, FiniteSets, Steps

CONSTANTS Asset,       \* ids
          Content,     \* what a file may hold
          Kind, Size, Dim,    \* of a content: its type, size, width and height
          StyleBox,    \* StyleBox[s]: the width and height of style s; height 0 is any
          Second,      \* what the clock may say, as a word
          FolderWord   \* what sanitizeMediaFolderSegment lets through

\* The contents and styles of an instance are sensible.
ASSUME MediaAssumption ==
  /\ Asset \subseteq Nat
  /\ \A c \in Content : Size[c] \in Nat /\ Dim[c].w \in Nat \ {0} /\ Dim[c].h \in Nat \ {0}
  /\ "thumbnail" \in DOMAIN StyleBox

Raster == {"jpg", "png", "webp"}
Editable == Raster
StyleName == DOMAIN StyleBox
Variant == StyleName \cup {"original"}

\* A file: folder, name, original or style.  Folders and names are sequences of words;
\* no name is that of another file's style (bound).
Disk(f, n, v) == {<<"disk", f, n, v, c>> : c \in Content \cup {"empty"}}
Originals(rows) == {r \in rows : r[1] = "disk" /\ r[4] = "original"}
OnDisk(f, n, rows) == Disk(f, n, "original") \cap rows # {}
AssetRow(m, rows) == {r \in rows : r[1] = "asset" /\ r[2] = m}

----------------------------------------------------------------------------
\* Settings

DefaultStyles == StyleName \cap {"thumbnail", "medium", "large"}
\* defaultApprovedExtensions, as far as these contents go.
DefaultTypes == {"jpg", "png", "webp", "svg", "pdf"}

\* No types are all the usual ones, "*" is any; a list of styles with one that is none
\* (normalizeStyle) counts as no list.
ParseApprovedExtensions(E) == IF E = {} THEN DefaultTypes ELSE IF "*" \in E THEN {} ELSE E
ParseImageStyles(S) == IF S = {} \/ ~(S \subseteq StyleName) THEN DefaultStyles ELSE S

LoadSettings(rows) ==
  LET kept == {r[2] : r \in {q \in rows : q[1] = "media"}}
      raw == IF kept = {} THEN [limit |-> 32, types |-> {}, styles |-> {}] ELSE CHOOSE s \in kept : TRUE
  IN [limit |-> IF raw.limit < 1 THEN 1 ELSE IF raw.limit > 512 THEN 512 ELSE raw.limit,
      types |-> ParseApprovedExtensions(raw.types), styles |-> ParseImageStyles(raw.styles)]

\* ValidateUpload; e is the extension of the file's name.
ValidateUpload(cfg, e, c) == Size[c] <= cfg.limit /\ (cfg.types = {} \/ e \in cfg.types)

----------------------------------------------------------------------------
\* Styles

AtLeast1(n) == IF n < 1 THEN 1 ELSE n

\* fitDimensions: a width of at most box.w and, unless it is 0, a height of at most box.h,
\* never more than there is.
FitDimensions(dim, box) ==
  LET byWidth == IF dim.w > box.w THEN [w |-> box.w, h |-> AtLeast1((dim.h * box.w) \div dim.w)] ELSE dim
      byHeight == [w |-> AtLeast1((dim.w * box.h) \div dim.h), h |-> box.h]
  IN IF box.h = 0 \/ byWidth.h <= box.h THEN byWidth
     ELSE IF byHeight.w > box.w THEN [w |-> box.w, h |-> AtLeast1((dim.h * box.w) \div dim.w)]
     ELSE byHeight

\* A copy is written in one step (bound).
WriteStyleDerivative(f, n, s, c) == <<Ignored(Save(Disk(f, n, s), <<"disk", f, n, s, c>>))>>

\* GenerateStyles: a picture that fits a style gets no copy.  Errors are only logged.
GenerateStyles(f, n, S, rows) ==
  LET shown == {c \in Content : Kind[c] \in Raster /\ <<"disk", f, n, "original", c>> \in rows}
      wanted == {s \in S : \E c \in shown : FitDimensions(Dim[c], StyleBox[s]) # Dim[c]}
  IN ForEach(wanted, LAMBDA s : WriteStyleDerivative(f, n, s, CHOOSE c \in shown : TRUE))

\* os.Remove: nobody looks whether the file is gone.
RemoveFile(f, n, v) == Ignored(Delete(Disk(f, n, v)))

\* Mutant: a thumbnail that is no style any more is left.
RemoveListed(f, n, S) == ForEach(S, LAMBDA s : <<RemoveFile(f, n, s)>>)

\* RemoveDerivatives: the styles there are now, and the thumbnail in any case.
RemoveDerivatives(f, n, S) == ForEach(S \cup {"thumbnail"}, LAMBDA s : <<RemoveFile(f, n, s)>>)

----------------------------------------------------------------------------
\* Files

\* normalizeMediaFolder and joinMediaFolder (lower case and hyphens are typed as such).
NormalizeMediaFolder(f) == ToSet(f) \subseteq FolderWord
JoinMediaFolder(parent, name) == parent \o <<name>>

\* os.MkdirAll
MakeFolder(f) == Link({<<"folder", SubSeq(f, 1, i)>> : i \in 1 .. Len(f)})

\* os.Create truncates a file that is there.  What is copied goes to the file that was
\* opened: if it has been removed meanwhile, nowhere.
CreateFile(f, n) == Save(Disk(f, n, "original"), <<"disk", f, n, "original", "empty">>)
CopyInto(f, n, c) == Update(Disk(f, n, "original"), <<"disk", f, n, "original", c>>)

\* mediaCreateFolder and ensureMediaFolder
MediaCreateFolder(parent, name) ==
  LET f == JoinMediaFolder(parent, name) IN
  IF ~NormalizeMediaFolder(f) THEN <<Return>> ELSE <<MakeFolder(f)>>

\* db.Create, with an id that is free when it comes to it.  (History: seen, the files there
\* were when the name was picked.)
NewAsset(f, n, k, seen, rows) ==
  LET free == {m \in Asset : AssetRow(m, rows) = {}} IN
  <<Link({<<"asset", CHOOSE m \in free : \A o \in free : m <= o, f, n, k>>})>>

\* Mutant: nobody looks whether the name is taken.
TakenName(f, n, t, rows) == n

\* A name that is taken gets the second t appended, and nobody looks whether that is free.
UniqueName(f, n, t, rows) == IF OnDisk(f, n, rows) THEN n \o <<t>> ELSE n

\* saveMediaUpload: a file whose row cannot be written stays behind.
MediaUpload(n, f, c, t, rows) ==
  LET cfg == LoadSettings(rows)  folder == IF f = <<>> THEN <<"content">> ELSE f IN
  IF ~NormalizeMediaFolder(f) \/ ~ValidateUpload(cfg, Kind[c], c) THEN <<Return>>
  ELSE <<MakeFolder(folder), Call(<<"mediaWrite", n, folder, c, t>>)>>
MediaWrite(n, f, c, t, rows) ==
  LET name == UniqueName(f, n, t, rows) IN
  <<CreateFile(f, name), CopyInto(f, name, c), Where(<<"newAsset", f, name, Kind[c], Originals(rows)>>)>>
  \o When(Kind[c] \in Raster, <<Call(<<"generate", f, name, LoadSettings(rows).styles>>)>>)

\* mediaDuplicate: the copy goes if it fails, or if its row cannot be written.
MediaDuplicate(m, t, rows) ==
  IF AssetRow(m, rows) = {} THEN <<>> ELSE
  LET row == CHOOSE r \in AssetRow(m, rows) : TRUE
      f == row[3]
      there == Disk(f, row[4], "original") \cap rows
      c == (CHOOSE r \in there : TRUE)[5]
      name == UniqueName(f, row[4] \o <<"copy">>, t, rows)
      kind == IF c \in Content THEN Kind[c] ELSE row[5]
  IN IF there = {} THEN <<Return>>
     ELSE <<MakeFolder(f), CreateFile(f, name), Catch(<<>>), CopyInto(f, name, c),
            Where(<<"newAsset", f, name, kind, Originals(rows)>>), Catch(<<RemoveFile(f, name, "original")>>),
            Call(<<"generate", f, name, LoadSettings(rows).styles>>)>>

\* mediaReplace: the row is written whole, again if it has been deleted meanwhile.  What
\* is no picture takes the old one with it.  Where a script waits for the answer (json),
\* the styles are made by a goroutine of their own: a job.
MediaReplace(m, c, e, json, rows) ==
  IF ~ValidateUpload(LoadSettings(rows), e, c) THEN <<Return>>
  ELSE IF AssetRow(m, rows) = {} THEN <<>> ELSE
  LET row == CHOOSE r \in AssetRow(m, rows) : TRUE
      f == row[3]  n == row[4]  S == LoadSettings(rows).styles
  IN RemoveDerivatives(f, n, S) \o <<CreateFile(f, n), CopyInto(f, n, c)>>
     \o (IF Kind[c] \notin Editable THEN <<RemoveFile(f, n, "original"), Return>>
         ELSE <<Where(<<"saveAsset", m, <<"asset", m, f, n, Kind[c]>>>>),
                IF json THEN Link({<<"job", f, n, S>>}) ELSE Call(<<"generate", f, n, S>>)>>)
SaveAsset(m, row, rows) == <<Save(AssetRow(m, rows), row)>>

\* The goroutine of one of the jobs.  (That a job has been there stays known.)
Background(rows) ==
  LET jobs == {r \in rows : r[1] = "job" /\ <<"done", r[2], r[3]>> \notin rows} IN
  When(jobs # {},
       LET j == CHOOSE r \in jobs : TRUE
       IN <<Link({<<"done", j[2], j[3]>>}), Call(<<"generate", j[2], j[3], j[4]>>)>>)

\* mediaDelete: the files go, or stay, before the row, which may then fail to go.
MediaDelete(m, rows) ==
  IF AssetRow(m, rows) = {} THEN <<>> ELSE
  LET row == CHOOSE r \in AssetRow(m, rows) : TRUE
  IN RemoveDerivatives(row[3], row[4], LoadSettings(rows).styles)
     \o <<RemoveFile(row[3], row[4], "original"), Where(<<"deleteAsset", m>>)>>
DeleteAsset(m, rows) == <<Delete(AssetRow(m, rows))>>

SaveMediaSettings(cfg, rows) == <<Save({r \in rows : r[1] = "media"}, <<"media", cfg>>)>>

----------------------------------------------------------------------------
\* Browsing

\* discoverMediaFolders: what is on disk, and what a row says.
DiscoverMediaFolders(rows) ==
  {<<"content">>} \cup {r[2] : r \in {q \in rows : q[1] = "folder"}}
  \cup ({r[3] : r \in {q \in rows : q[1] = "asset"}} \ {<<>>})

\* Mutant: only a folder that is itself there is listed below its parent.
MediaChildrenThere(all, f) == {g \in all : Len(g) = Len(f) + 1 /\ IsPrefix(f, g)}

\* mediaChildFolderNav (directMediaChildFolder): a folder is listed if something is below it.
MediaChildFolderNav(all, f) ==
  {SubSeq(g, 1, Len(f) + 1) : g \in {h \in all : Len(h) > Len(f) /\ IsPrefix(f, h)}}

\* mediaFolderBreadcrumbs: the folders on the way down to f.
MediaFolderBreadcrumbs(f) == {SubSeq(f, 1, i) : i \in 1 .. Len(f)}

\* What mediaList shows in folder f, and the picker without one.
MediaList(f, rows) == {r \in rows : r[1] = "asset" /\ r[3] = f}
MediaPicker(f, files, rows) ==
  {r \in rows : r[1] = "asset" /\ (files \/ r[5] \in Raster \cup {"svg"}) /\ (f = <<>> \/ r[3] = f)}

\* The file a page gets for a style: ResolveWebStyle.
ResolveWebStyle(f, n, s, rows) == IF Disk(f, n, s) \cap rows # {} THEN s ELSE "original"

================================================================================
