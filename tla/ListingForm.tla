----------------------------- MODULE ListingForm -----------------------------
(***************************************************************************)
(* How a seller makes a listing in the dialog for products (ProductDialog), *)
(* and how the pages get at its pictures (ImageProvider).                   *)
(*                                                                          *)
(* Submitting uploads the pictures that have loaded, puts the listing, saves *)
(* the pictures under their names in the folder of the listing's key, and   *)
(* clears the form; the table of variations stays.  All of this is one call  *)
(* of the GUI's thread, which the pages need too.  A picture that a page     *)
(* asks for is read from the folder once and cached.                        *)
(***************************************************************************)
EXTENDS Naturals, Sequences, FiniteSets

CONSTANTS
    Slots,          \* how many pictures the dialog has room for
    Files,          \* the picture files of the seller
    Options,        \* what variations there can be
    Infos, Unsaid,  \* what is typed for one of them; nothing
    Tables,         \* the tables of variations: sequences of Rows
    Thumbnail,      \* the name of the thumbnails, which no picture has
    NoImage,
    MaxForms,       \* bound on the forms filled in
    MaxListings,    \* bound on the listings made
    MaxCached       \* bound on the images in the cache

\* A file: its name in the datastore (the hash of its base name, with its extension), its
\* dimensions, the bytes of one of its pixels in memory, its size, and whether it loads.
Pictures == [name : STRING, width : Nat, height : Nat, depth : Nat, bytes : Nat \ {0},
             loads : BOOLEAN]

Rows == [options : Options, info : Infos \cup {Unsaid}]

ASSUME ListingFormAssumption ==
    /\ Slots \in Nat \ {0} /\ MaxForms \in Nat /\ MaxListings \in Nat
    /\ MaxCached \in Nat \ {0}
    /\ Files \subseteq Pictures
    /\ NoImage \notin Files
    /\ Thumbnail \notin {f.name : f \in Files}
    /\ Unsaid \notin Infos
    /\ Tables \subseteq Seq(Rows)

VARIABLES
    filled,         \* the fields are filled in
    forms,          \* how many times they were
    pictures,       \* the file chosen for each slot
    lastImageIndex, \* the slot that last loaded
    variations,     \* VariationWizard: variantModel
    submitted,      \* the listings put
    folders,        \* the datastore: what is saved in each folder, the root being 0
    cache,          \* ImageProvider: mCache
    crashed

listingFormVars ==
    <<filled, forms, pictures, lastImageIndex, variations, submitted, folders, cache, crashed>>

SlotIds == 0..(Slots - 1)
Empty == [s \in SlotIds |-> NoImage]

ListingFormInit ==
    /\ filled = FALSE /\ forms = 0
    /\ pictures = Empty /\ lastImageIndex = Slots
    /\ variations = <<>>
    /\ submitted = <<>>
    /\ folders = [k \in 0..MaxListings |-> [n \in {} |-> NoImage]]
    /\ cache = [k \in {} |-> NoImage]
    /\ crashed = FALSE

----------------------------------------------------------------------------
(* Filling in the form.                                                     *)

FillIn ==
    /\ ~filled
    /\ forms < MaxForms
    /\ filled' = TRUE
    /\ forms' = forms + 1
    /\ UNCHANGED <<pictures, lastImageIndex, variations, submitted, folders, cache, crashed>>

\* A file is chosen for slot s, unless the slot to its left has none.  Its status becomes
\* Ready or Error; where it was Ready before, it need not be reported again.
ChoosePicture(s, f) ==
    /\ s > 0 => pictures[s - 1] # NoImage
    /\ pictures' = [pictures EXCEPT ![s] = f]
    /\ lastImageIndex' \in IF ~f.loads THEN {lastImageIndex}
                           ELSE IF pictures[s] # NoImage /\ pictures[s].loads THEN {lastImageIndex, s}
                           ELSE {s}
    /\ UNCHANGED <<filled, forms, variations, submitted, folders, cache, crashed>>

\* The button in the corner of the picture that loaded last.  No slot: Slots.
RemovePicture ==
    /\ lastImageIndex \in SlotIds
    /\ pictures[lastImageIndex] # NoImage /\ pictures[lastImageIndex].loads
    /\ pictures' = [pictures EXCEPT ![lastImageIndex] = NoImage]
    /\ lastImageIndex' = IF lastImageIndex = 0 THEN Slots ELSE lastImageIndex - 1
    /\ UNCHANGED <<filled, forms, variations, submitted, folders, cache, crashed>>

\* The wizard's buttons "Add Variants" and "Remove" and the fields of its rows, between which
\* nothing else looks at the table: the user leaves it as one of Tables.  Nothing in the
\* wizard keeps two rows from having the same options.
EditVariants(table) ==
    /\ variations' = table
    /\ UNCHANGED <<filled, forms, pictures, lastImageIndex, submitted, folders, cache, crashed>>

----------------------------------------------------------------------------
(* Pictures.                                                                *)

isSupportedImageDimension(width, height) ==
    \/ width <= 1920 /\ height <= 1280
    \/ height <= 1920 /\ width <= 1280
    \/ width <= 1600 /\ height <= 1600

MaxImageSize == 2 * 1024 * 1024

Supported(f) == isSupportedImageDimension(f.width, f.height) /\ f.bytes <= MaxImageSize

\* uploadImageToObject: the length of the pieces that a file of some size is hashed in.
PieceSize(bytes) ==
    IF bytes >= 2097152 THEN 1048576
    ELSE IF bytes >= 1048576 THEN 524288
    ELSE IF bytes >= 524288 THEN 262144
    ELSE IF bytes >= 262144 THEN 131072
    ELSE IF bytes >= 131072 THEN 65536
    ELSE IF bytes >= 65536 THEN 32768
    ELSE 16384

\* hash_file: how many there are, the last being what is left.
Pieces(bytes) == (bytes + PieceSize(bytes) - 1) \div PieceSize(bytes)

\* The pictures that have loaded.
Ready == {s \in SlotIds : pictures[s] # NoImage /\ pictures[s].loads}

\* The images of the listing, each with its slot.
Images == {[id |-> s, file |-> pictures[s], pieces |-> Pieces(pictures[s].bytes)] : s \in Ready}

First(images) == CHOOSE x \in images : \A y \in images : x.id <= y.id
Named(images, n) == {x \in images : x.file.name = n}
NamesOf(images) == {x.file.name : x \in images}

\* Faulty: a picture is written over one of the same name.
SavedOver(folder, images) ==
    LET Last(S) == CHOOSE x \in S : \A y \in S : x.id >= y.id
    IN  [n \in DOMAIN folder \cup {Thumbnail} \cup NamesOf(images) |->
            IF n \in NamesOf(images) THEN Last(Named(images, n)).file
            ELSE IF n \in DOMAIN folder THEN folder[n]
            ELSE First(images).file]

\* saveProductThumbnail, of the first picture, and saveProductImage, of each: what has been
\* saved under a name is not written over.
Saved(folder, images) ==
    [n \in DOMAIN folder \cup {Thumbnail} \cup NamesOf(images) |->
        IF n \in DOMAIN folder THEN folder[n]
        ELSE IF n = Thumbnail THEN First(images).file
        ELSE First(Named(images, n)).file]

----------------------------------------------------------------------------
(* Submitting the form.                                                     *)

\* buildVariantsForCpp: where nothing was typed, it is the value of the form.
VariantOf(row) ==
    [options |-> row.options, info |-> row.info, form |-> IF row.info = Unsaid THEN forms ELSE 0]

\* listProduct: the variants in the order of the table.
VariantsList == [i \in DOMAIN variations |-> VariantOf(variations[i])]

\* Serializer: of the variants with the same options, the first.
Variants(list) ==
    {list[i] : i \in {k \in DOMAIN list :
        \A j \in DOMAIN list : list[j].options = list[k].options => k <= j}}

\* list_item: the listing is put, whatever becomes of it.  Without an answer that parses,
\* its key is not known to the dialog.
list_item(folder) ==
    submitted' = Append(submitted, [form |-> forms, variants |-> Variants(VariantsList),
                              images |-> Images, folder |-> folder])

\* The button "Submit", when no check of it fails: a name, a location, the options and the
\* coins, a picture in the first slot, none that is too large.  When none has loaded, the
\* listing has no pictures, and the missing one ends the handler before it clears the form.
Submit(named) ==
    LET folder == IF named THEN Len(submitted) + 1 ELSE 0
    IN  /\ filled
        /\ pictures[0] # NoImage
        /\ \A s \in Ready : Supported(pictures[s])
        /\ Len(submitted) < MaxListings
        /\ list_item(folder)
        /\ IF Ready = {} THEN UNCHANGED <<filled, pictures, folders>>
           ELSE /\ folders' = [folders EXCEPT ![folder] = Saved(@, Images)]
                /\ filled' = FALSE
                /\ pictures' = Empty
        /\ UNCHANGED <<forms, lastImageIndex, variations, cache, crashed>>

----------------------------------------------------------------------------
(* The pages.                                                               *)

\* getProductImagePath and load: no file gives an image without pixels.
LoadedImage(j, n) == IF n \in DOMAIN folders[j] THEN folders[j][n] ELSE NoImage

\* What an image costs the cache: a thumbnail is at most 192 pixels wide and high.
MaxCost == 1024 * 1024 * 10
Cost(f) == f.depth * f.width * f.height
TooCostly(n, f) == n # Thumbnail /\ f # NoImage /\ Cost(f) > MaxCost

\* The inventory, the catalogue and the product's page ask for the thumbnail of listing j
\* or one of the pictures it names.  What is not cached is loaded and inserted; which
\* others are dropped for it is left open.  The cache deletes what costs more than all of
\* it, and the provider dereferences it.
requestImage(j, n) ==
    /\ j \in DOMAIN submitted
    /\ n \in {Thumbnail} \cup NamesOf(submitted[j].images)
    /\ <<j, n>> \notin DOMAIN cache
    /\ IF TooCostly(n, LoadedImage(j, n)) THEN crashed' = TRUE /\ UNCHANGED cache
       ELSE /\ \E kept \in SUBSET DOMAIN cache :
                  /\ Cardinality(kept) < MaxCached
                  /\ cache' = [k \in kept \cup {<<j, n>>} |->
                                 IF k \in kept THEN cache[k] ELSE LoadedImage(j, n)]
            /\ UNCHANGED crashed
    /\ UNCHANGED <<filled, forms, pictures, lastImageIndex, variations, submitted, folders>>

FileNames == {f.name : f \in Files}

ListingFormNext ==
    /\ ~crashed
    /\ \/ FillIn
       \/ \E s \in SlotIds, f \in Files : ChoosePicture(s, f)
       \/ RemovePicture
       \/ \E table \in Tables : EditVariants(table)
       \/ \E named \in BOOLEAN : Submit(named)
       \/ \E j \in 1..MaxListings, n \in FileNames \cup {Thumbnail} : requestImage(j, n)

ListingFormSpec == ListingFormInit /\ [][ListingFormNext]_listingFormVars

----------------------------------------------------------------------------

Offered == [options : Options, info : Infos \cup {Unsaid}, form : Nat]
Uploads == [id : SlotIds, file : Files, pieces : Nat]
Listed == [form : Nat, variants : SUBSET Offered, images : SUBSET Uploads, folder : Nat]

ListingFormTypeOK ==
    /\ filled \in BOOLEAN /\ forms \in Nat
    /\ pictures \in [SlotIds -> Files \cup {NoImage}]
    /\ lastImageIndex \in 0..Slots
    /\ variations \in Seq(Rows)
    /\ submitted \in Seq(Listed) /\ Len(submitted) <= MaxListings
    /\ \A j \in DOMAIN submitted : submitted[j].form \in 1..forms /\ submitted[j].folder \in {0, j}
    /\ crashed \in BOOLEAN

\* What the pages show under the name of a picture is the first picture of that name in
\* the listing, and as its thumbnail its first picture; where the dialog did not learn the
\* listing's key, nothing (saveProductImage, requestImage).
PicturesShown ==
    \A k \in DOMAIN cache :
        LET images == submitted[k[1]].images
            candidates == IF k[2] = Thumbnail THEN images ELSE Named(images, k[2])
        IN  IF submitted[k[1]].folder = k[1] /\ candidates # {}
            THEN \E x \in candidates : /\ \A y \in candidates : x.id <= y.id
                                       /\ cache[k] = x.file
            ELSE cache[k] = NoImage

\* An image that has at most four bytes for a pixel is never more than the cache can take
\* (isSupportedImageDimension, requestImage).
CacheTakesPictures ==
    crashed => \E j \in DOMAIN submitted : \E x \in submitted[j].images : x.file.depth > 4

\* A form that was listed with pictures is not listed again (listProductButton).
ListedOnce ==
    \A i, j \in DOMAIN submitted :
        i < j /\ submitted[i].form = submitted[j].form => submitted[i].images = {}

\* No two variants of a listing have the same options, and no picture of it has more than
\* four pieces (Serializer::serialize, uploadImageToObject).
ListingsWellFormed ==
    \A j \in DOMAIN submitted :
        /\ \A v, w \in submitted[j].variants : v.options = w.options => v = w
        /\ \A x \in submitted[j].images : x.pieces \in 1..4

\* What is listed, and what is shown of it, is what the form was filled in with.
ListedAsFilled ==
    PicturesShown /\ CacheTakesPictures /\ ListedOnce /\ ListingsWellFormed
=============================================================================
