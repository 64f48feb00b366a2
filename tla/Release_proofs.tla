----------------------------- MODULE Release_proofs ----------------------------
(***************************************************************************)
(* The properties of Release for every set of build directories, Zephyr     *)
(* checkouts and keys, however often the three commands are run.            *)
(***************************************************************************)
EXTENDS Release, TLAPS

--------------------------------------------------------------------------------
(* What is in a build directory                                             *)

Removing(d) == \E b \in build : b.dir = d /\ b.removing

(* Images are only where CMake wrote its cache, unless a removal is at work *)
(* or was cut short; and they are of the directory.                         *)
ImagesOfDir ==
  \A d \in Dir :
    /\ out[d].cache = {} /\ d \notin torn /\ ~Removing(d) =>
         out[d].app = {} /\ out[d].signed = {} /\ out[d].bootloader = {}
    /\ \A app \in out[d].app : app.dir = d

(* The commands build one after the other.                                  *)
OneBuild == \A b, c \in build : b = c

(* The running build is in a directory of its checkout, once what it removes *)
(* is gone, and what it made is there with its key.                         *)
ImagesOfBuild ==
  \A b \in build :
    /\ b.removing => b.made = {}
    /\ ~b.removing => out[b.dir].cache \in {{}, {b.base}}
    /\ b.dir.boot = "mcuboot" /\ b.dir.profile = "production" => b.key # SampleKey
    /\ b.dir \notin complete
    /\ b.made # {} => out[b.dir].cache = {b.base}
    /\ "app" \in b.made => out[b.dir].app = {BuiltApp(b)}
    /\ "signed" \in b.made => out[b.dir].signed = {[app |-> BuiltApp(b), key |-> b.key]}
    /\ "bootloader" \in b.made =>
         out[b.dir].bootloader = {[base |-> b.base, key |-> b.key]}

(* The images that a boot mode needs are there, with one key.               *)
Startable(boot, app, signed, bootloader) ==
  IF boot = "mcuboot"
  THEN /\ signed # {} /\ bootloader # {}
       /\ \A s \in signed, b \in bootloader : s.key = b.key
  ELSE app # {}

CompleteStartable ==
  \A d \in complete : Startable(d.boot, out[d].app, out[d].signed, out[d].bootloader)

--------------------------------------------------------------------------------
(* What is in a package and on the board                                    *)

(* The running packager makes a package of the boot mode of its directory.  *)
(* As long as no build interferes, what it copied is what is there.         *)
CopyOfDir(p, package, files, completed) ==
  /\ p.dir.boot = p.name.boot
  /\ package.clean = FALSE
  /\ p.clean = TRUE =>
       /\ p.dir \in completed
       /\ p.step # "app" => package.app = files.app
       /\ p.step \in {"bootloader", "manifest"} => package.signed = files.signed
       /\ p.step = "manifest" => package.bootloader = files.bootloader

CopiesOfDir == \A p \in pack : CopyOfDir(p, dist[p.name], out[p.dir], complete)

PackagesOfBootMode ==
  \A name \in Name :
    /\ \A app \in dist[name].app : app.dir.boot = name.boot
    /\ dist[name].clean =>
         Startable(name.boot, dist[name].app, dist[name].signed, dist[name].bootloader)

(* The bootloader that flash.sh wrote has the key of what it is to write.   *)
BootloaderFits ==
  \A f \in flash : f.step = "slot0" /\ f.clean =>
    Startable("mcuboot", {}, f.signed, board.bootloader)

OneFlash == \A f, g \in flash : f = g

IInv ==
  /\ TypeOK
  /\ OneBuild
  /\ ImagesOfDir
  /\ ImagesOfBuild
  /\ CompleteStartable
  /\ CopiesOfDir
  /\ PackagesOfBootMode
  /\ OneFlash
  /\ BootloaderFits
  /\ OneBasePerDir
  /\ ProductionKeysAreOwn
  /\ FlashedBoardBoots

--------------------------------------------------------------------------------
(* Types                                                                    *)

Files == [cache : SUBSET Base, app : SUBSET App, signed : SUBSET Signed,
          bootloader : SUBSET Bootloader]
Package == [app : SUBSET App, signed : SUBSET Signed, bootloader : SUBSET Bootloader,
            manifest : BOOLEAN, clean : BOOLEAN]
Build == [dir : Dir, base : Base, key : Key, made : SUBSET Image, removing : BOOLEAN]
Packager == [step : {"app", "signed", "bootloader", "manifest"}, dir : Dir,
             clean : BOOLEAN, name : Name]

LEMMA TypeInit == Init => TypeOK
<1> SUFFICES ASSUME Init PROVE TypeOK
  OBVIOUS
<1>1. EmptyDir \in Files /\ EmptyPackage \in Package
  BY DEF EmptyDir, EmptyPackage, Files, Package
<1>2. runs \in [build : 0..MaxBuilds, package : 0..MaxPackages, flash : 0..MaxFlashes]
  BY BoundsAssumption DEF Init
<1> QED BY <1>1, <1>2 DEF Init, TypeOK, EmptyDir, BlankBoard, Files, Package

(* The directory of a build after one more image is well-formed.            *)
LEMMA WithImageType ==
  ASSUME NEW files \in Files, NEW image \in Image, NEW b \in Build
  PROVE  /\ WithImage(files, image, b) \in Files
         /\ WithImage(files, image, b).cache = files.cache
         /\ image = "app" =>
              WithImage(files, image, b) = [files EXCEPT !.app = {BuiltApp(b)}]
         /\ image = "signed" =>
              WithImage(files, image, b)
                = [files EXCEPT !.signed = {[app |-> BuiltApp(b), key |-> b.key]}]
         /\ image = "bootloader" =>
              WithImage(files, image, b)
                = [files EXCEPT !.bootloader = {[base |-> b.base, key |-> b.key]}]
<1>1. BuiltApp(b) \in App
  BY DEF BuiltApp, App, Build
<1>2. CASE image = "app"
  BY <1>1, <1>2 DEF WithImage, Files
<1>3. CASE image = "signed"
  <2>1. [app |-> BuiltApp(b), key |-> b.key] \in Signed
    BY <1>1 DEF Signed, Build
  <2> QED BY <1>3, <2>1 DEF WithImage, Files
<1>4. CASE image = "bootloader"
  <2>1. [base |-> b.base, key |-> b.key] \in Bootloader
    BY DEF Bootloader, Build
  <2> QED BY <1>4, <2>1 DEF WithImage, Files
<1> QED BY <1>2, <1>3, <1>4 DEF Image

(* One file of the directory of b goes.                                     *)
RemovedFile(b) ==
  out' \in {[out EXCEPT ![b.dir].cache = {}], [out EXCEPT ![b.dir].app = {}],
           [out EXCEPT ![b.dir].signed = {}], [out EXCEPT ![b.dir].bootloader = {}]}

LEMMA RemovedFileType ==
  ASSUME out \in [Dir -> Files], build \subseteq Build, NEW b \in build, RemovedFile(b)
  PROVE  /\ out' \in [Dir -> Files]
         /\ \A e \in Dir \ {b.dir} : out'[e] = out[e]
         /\ \A e \in Dir :
              /\ out'[e].cache \in {{}, out[e].cache}
              /\ out'[e].app \in {{}, out[e].app}
              /\ out'[e].signed \in {{}, out[e].signed}
              /\ out'[e].bootloader \in {{}, out[e].bootloader}
<1>1. b.dir \in Dir
  BY DEF Build
<1>2. CASE out' = [out EXCEPT ![b.dir].cache = {}]
  BY <1>1, <1>2 DEF Files
<1>3. CASE out' = [out EXCEPT ![b.dir].app = {}]
  BY <1>1, <1>3 DEF Files
<1>4. CASE out' = [out EXCEPT ![b.dir].signed = {}]
  BY <1>1, <1>4 DEF Files
<1>5. CASE out' = [out EXCEPT ![b.dir].bootloader = {}]
  BY <1>1, <1>5 DEF Files
<1> QED BY <1>2, <1>3, <1>4, <1>5 DEF RemovedFile

LEMMA TypeStep == ASSUME TypeOK, [Next]_vars PROVE TypeOK'
<1>a. /\ out \in [Dir -> Files]
      /\ build \subseteq Build
      /\ dist \in [Name -> Package]
      /\ pack \subseteq Packager
  BY DEF TypeOK, Files, Build, Package, Packager
<1>b. EmptyDir \in Files /\ EmptyPackage \in Package
  BY DEF EmptyDir, EmptyPackage, Files, Package
<1>c. /\ runs.build < MaxBuilds => [runs EXCEPT !.build = @ + 1] \in
           [build : 0..MaxBuilds, package : 0..MaxPackages, flash : 0..MaxFlashes]
      /\ runs.package < MaxPackages => [runs EXCEPT !.package = @ + 1] \in
           [build : 0..MaxBuilds, package : 0..MaxPackages, flash : 0..MaxFlashes]
      /\ runs.flash < MaxFlashes => [runs EXCEPT !.flash = @ + 1] \in
           [build : 0..MaxBuilds, package : 0..MaxPackages, flash : 0..MaxFlashes]
  BY BoundsAssumption DEF TypeOK
<1>1. ASSUME NEW d \in Dir, NEW mode \in BuildMode, NEW base \in Base,
             NEW given \in GivenKey, BuildCommand(d, mode, base, given)
      PROVE  TypeOK'
  <2>1. build' \subseteq Build
    <3>1. StartsFresh(d, mode, base) \in BOOLEAN
      BY DEF StartsFresh, OtherBase
    <3> QED BY <1>1, <3>1 DEF BuildCommand, Build, GivenKey
  <2>2. pack' \subseteq Packager
    BY <1>1, <1>a DEF BuildCommand, Packager
  <2> QED BY <1>1, <1>c, <2>1, <2>2 DEF BuildCommand, TypeOK, Build, Packager
<1>2. CASE Configure
  <2>1. PICK b \in build : /\ out' = [out EXCEPT ![b.dir].cache = {b.base}]
                           /\ UNCHANGED <<runs, build, dist, pack, board, flash, complete, torn, good>>
    BY <1>2 DEF Configure
  <2>2. b \in Build
    BY <1>a
  <2>3. out' \in [Dir -> Files]
    BY <1>a, <2>1, <2>2 DEF Files, Build
  <2>4. \A e \in Dir : e.boot = "no-mcuboot" => out'[e].signed = {} /\ out'[e].bootloader = {}
    BY <1>a, <2>1, <2>2 DEF TypeOK, Files
  <2> QED BY <2>1, <2>3, <2>4 DEF TypeOK, Files
<1>3. ASSUME NEW image \in Image, MakeImage(image) PROVE TypeOK'
  <2>1. PICK b \in build :
          /\ image \in Needed(b.dir.boot)
          /\ out' = [out EXCEPT ![b.dir] = WithImage(@, image, b)]
          /\ build' = {[b EXCEPT !.made = @ \cup {image}]}
          /\ UNCHANGED <<runs, dist, pack, board, flash, complete, torn, good>>
    BY <1>3 DEF MakeImage
  <2>2. b \in Build /\ b.dir \in Dir /\ out[b.dir] \in Files
    BY <1>a DEF Build
  <2>3. out' \in [Dir -> Files]
    BY <1>a, <2>1, <2>2, WithImageType
  <2>4. build' \subseteq Build
    BY <2>1, <2>2 DEF Build
  <2>5. ASSUME NEW e \in Dir, e.boot = "no-mcuboot"
        PROVE  out'[e].signed = {} /\ out'[e].bootloader = {}
    <3>1. CASE e # b.dir
      BY <1>a, <2>1, <2>5, <3>1 DEF TypeOK
    <3>2. CASE e = b.dir
      <4>1. image = "app"
        BY <2>1, <2>5, <3>2 DEF Needed
      <4>2. out'[e] = [out[e] EXCEPT !.app = {BuiltApp(b)}]
        <5>1. out'[e] = WithImage(out[e], image, b)
          BY <1>a, <2>1, <3>2
        <5>2. out[e] \in Files
          BY <1>a
        <5> QED BY <4>1, <5>1, <5>2 DEF WithImage
      <4>3. out[e].signed = {} /\ out[e].bootloader = {}
        BY <2>5 DEF TypeOK
      <4>4. out[e] \in Files
        BY <1>a
      <4> QED BY <4>2, <4>3, <4>4 DEF Files
    <3> QED BY <3>1, <3>2
  <2> QED BY <2>1, <2>3, <2>4, <2>5 DEF TypeOK, Files, Build
<1>4. CASE BuildCompletes
  BY <1>4, <1>a DEF BuildCompletes, TypeOK, Build
<1>5. CASE BuildFails
  BY <1>5, <1>a DEF BuildFails, TypeOK, Build
<1>6. ASSUME NEW d \in Dir, NEW profile \in Profile, NEW boot \in BootMode,
             PackageCommand(d, profile, boot)
      PROVE  TypeOK'
  <2> DEFINE name == [profile |-> profile, boot |-> boot]
  <2>1. name \in Name
    BY DEF Name
  <2>2. dist' = [dist EXCEPT ![name] = EmptyPackage]
    BY <1>6 DEF PackageCommand
  <2>3. pack' = {[step |-> "app", dir |-> d, name |-> name, clean |-> d \in complete]}
    BY <1>6 DEF PackageCommand
  <2> HIDE DEF name
  <2>4. dist' \in [Name -> Package]
    BY <1>a, <1>b, <2>2
  <2>5. pack' \subseteq Packager
    BY <2>1, <2>3 DEF Packager
  <2> QED BY <1>6, <1>c, <2>4, <2>5 DEF PackageCommand, TypeOK, Package, Packager
<1>7. CASE CopyApp
  <2>1. PICK p \in pack : /\ dist' = [dist EXCEPT ![p.name].app = out[p.dir].app]
                          /\ pack' = {[p EXCEPT !.step = "signed"]}
                          /\ UNCHANGED <<runs, out, build, board, flash, complete, torn, good>>
    BY <1>7 DEF CopyApp
  <2>2. p \in Packager /\ out[p.dir] \in Files
    BY <1>a DEF Packager
  <2>3. dist' \in [Name -> Package]
    <3>1. p.name \in Name /\ dist[p.name] \in Package
      BY <1>a, <2>2 DEF Packager
    <3>2. [dist[p.name] EXCEPT !.app = out[p.dir].app] \in Package
      BY <2>2, <3>1 DEF Package, Files
    <3> QED BY <1>a, <2>1, <3>1, <3>2
  <2>4. pack' \subseteq Packager
    BY <2>1, <2>2 DEF Packager
  <2> QED BY <2>1, <2>3, <2>4 DEF TypeOK, Package, Packager
<1>8. CASE CopySigned
  <2>1. PICK p \in pack : /\ dist' = [dist EXCEPT ![p.name].signed = out[p.dir].signed]
                          /\ pack' = {[p EXCEPT !.step = "bootloader"]}
                          /\ UNCHANGED <<runs, out, build, board, flash, complete, torn, good>>
    BY <1>8 DEF CopySigned
  <2>2. p \in Packager /\ out[p.dir] \in Files
    BY <1>a DEF Packager
  <2>3. dist' \in [Name -> Package]
    <3>1. p.name \in Name /\ dist[p.name] \in Package
      BY <1>a, <2>2 DEF Packager
    <3>2. [dist[p.name] EXCEPT !.signed = out[p.dir].signed] \in Package
      BY <2>2, <3>1 DEF Package, Files
    <3> QED BY <1>a, <2>1, <3>1, <3>2
  <2>4. pack' \subseteq Packager
    BY <2>1, <2>2 DEF Packager
  <2> QED BY <2>1, <2>3, <2>4 DEF TypeOK, Package, Packager
<1>9. CASE CopyBootloader
  <2>1. PICK p \in pack : /\ dist' = [dist EXCEPT ![p.name].bootloader = out[p.dir].bootloader]
                          /\ pack' = {[p EXCEPT !.step = "manifest"]}
                          /\ UNCHANGED <<runs, out, build, board, flash, complete, torn, good>>
    BY <1>9 DEF CopyBootloader
  <2>2. p \in Packager /\ out[p.dir] \in Files
    BY <1>a DEF Packager
  <2>3. dist' \in [Name -> Package]
    <3>1. p.name \in Name /\ dist[p.name] \in Package
      BY <1>a, <2>2 DEF Packager
    <3>2. [dist[p.name] EXCEPT !.bootloader = out[p.dir].bootloader] \in Package
      BY <2>2, <3>1 DEF Package, Files
    <3> QED BY <1>a, <2>1, <3>1, <3>2
  <2>4. pack' \subseteq Packager
    BY <2>1, <2>2 DEF Packager
  <2> QED BY <2>1, <2>3, <2>4 DEF TypeOK, Package, Packager
<1>10. CASE WriteManifest
  <2>1. PICK p \in pack :
          /\ dist' = [dist EXCEPT ![p.name].manifest = TRUE, ![p.name].clean = p.clean]
          /\ pack' = {}
          /\ UNCHANGED <<runs, out, build, board, flash, complete, torn, good>>
    BY <1>10 DEF WriteManifest
  <2>2. dist' \in [Name -> Package]
    BY <1>a, <2>1 DEF Package, Packager
  <2> QED BY <2>1, <2>2 DEF TypeOK, Package
<1>11. CASE PackageInterrupted
  BY <1>11 DEF PackageInterrupted, TypeOK
<1>12. ASSUME NEW name \in Name, FlashCommand(name) PROVE TypeOK'
  BY <1>12, <1>c DEF FlashCommand, TypeOK
<1>13. CASE Erase
  <2>1. /\ board' = BlankBoard /\ good' = FALSE
        /\ UNCHANGED <<runs, out, build, dist, pack, flash, complete, torn>>
    BY <1>13 DEF Erase
  <2>2. BlankBoard \in [direct : SUBSET App, bootloader : SUBSET Bootloader,
                       slot0 : SUBSET Signed]
    BY DEF BlankBoard
  <2> QED BY <2>1, <2>2 DEF TypeOK
<1>14. CASE WriteApplication
  <2>1. PICK f \in flash :
          /\ board' = [direct |-> dist[f.name].app, bootloader |-> {}, slot0 |-> {}]
          /\ flash' = {}
          /\ good' = dist[f.name].clean
          /\ UNCHANGED <<runs, out, build, dist, pack, complete, torn>>
    BY <1>14 DEF WriteApplication
  <2>2. dist[f.name] \in Package
    BY <1>a DEF TypeOK
  <2>3. dist[f.name].app \subseteq App /\ dist[f.name].clean \in BOOLEAN
    BY <2>2 DEF Package
  <2> QED BY <2>1, <2>3 DEF TypeOK
<1>15. CASE WriteBootloader
  <2>1. PICK f \in flash :
          /\ board' = [board EXCEPT !.direct = {}, !.bootloader = dist[f.name].bootloader]
          /\ flash' = {[f EXCEPT !.step = "slot0", !.signed = dist[f.name].signed,
                                 !.clean = dist[f.name].clean]}
          /\ good' = FALSE
          /\ UNCHANGED <<runs, out, build, dist, pack, complete, torn>>
    BY <1>15 DEF WriteBootloader
  <2>2. dist[f.name] \in Package
    BY <1>a DEF TypeOK
  <2>3. /\ dist[f.name].bootloader \subseteq Bootloader
        /\ dist[f.name].signed \subseteq Signed
        /\ dist[f.name].clean \in BOOLEAN
    BY <2>2 DEF Package
  <2>4. flash' \subseteq [step : {"open", "slot0"}, name : Name, signed : SUBSET Signed,
                         clean : BOOLEAN]
    BY <2>1, <2>3 DEF TypeOK
  <2>5. board' \in [direct : SUBSET App, bootloader : SUBSET Bootloader,
                   slot0 : SUBSET Signed]
    BY <2>1, <2>3 DEF TypeOK
  <2> QED BY <2>1, <2>4, <2>5 DEF TypeOK
<1>16. CASE WriteSlot0
  BY <1>16 DEF WriteSlot0, TypeOK
<1>17. CASE FlashFails
  BY <1>17 DEF FlashFails, TypeOK
<1>18. CASE RemoveFile
  <2>1. PICK b \in build : RemovedFile(b) /\ UNCHANGED <<runs, build, dist, pack, board,
                                                        flash, complete, torn, good>>
    BY <1>18 DEF RemoveFile, RemovedFile
  <2>2. out' \in [Dir -> Files]
    BY <1>a, <2>1, RemovedFileType
  <2>3. \A e \in Dir : e.boot = "no-mcuboot" => out'[e].signed = {} /\ out'[e].bootloader = {}
    BY <1>a, <2>1, RemovedFileType DEF TypeOK
  <2> QED BY <2>1, <2>2, <2>3 DEF TypeOK, Files
<1>19. CASE RemovalEnds
  <2>1. PICK b \in build : build' = {[b EXCEPT !.removing = FALSE]}
    BY <1>19 DEF RemovalEnds
  <2>2. build' \subseteq Build
    BY <1>a, <2>1 DEF Build
  <2>3. torn' \subseteq Dir /\ UNCHANGED <<runs, out, dist, pack, board, flash, complete, good>>
    BY <1>19 DEF RemovalEnds, TypeOK
  <2> QED BY <2>2, <2>3 DEF TypeOK, Build
<1>20. CASE UNCHANGED vars
  BY <1>20 DEF vars, TypeOK
<1> QED BY <1>1, <1>2, <1>3, <1>4, <1>5, <1>6, <1>7, <1>8, <1>9, <1>10, <1>11, <1>12,
           <1>13, <1>14, <1>15, <1>16, <1>17, <1>18, <1>19, <1>20 DEF Next

--------------------------------------------------------------------------------
(* Build directories                                                        *)

DirInv ==
  /\ OneBuild
  /\ ImagesOfDir
  /\ ImagesOfBuild
  /\ CompleteStartable
  /\ OneBasePerDir
  /\ ProductionKeysAreOwn

(* Only the actions of a build touch a build directory.                *)
BuildStep ==
  \/ \E d \in Dir, mode \in BuildMode, base \in Base, given \in GivenKey :
       BuildCommand(d, mode, base, given)
  \/ RemoveFile
  \/ RemovalEnds
  \/ Configure
  \/ \E image \in Image : MakeImage(image)
  \/ BuildCompletes
  \/ BuildFails

LEMMA OtherStep ==
  ASSUME [Next]_vars, ~BuildStep
  PROVE  UNCHANGED <<out, build, complete, torn>>
BY DEF Next, vars, BuildStep, PackageCommand, CopyApp, CopySigned, CopyBootloader,
  WriteManifest, PackageInterrupted, FlashCommand, Erase, WriteApplication,
  WriteBootloader, WriteSlot0, FlashFails

LEMMA FilesType ==
  ASSUME TypeOK
  PROVE  /\ out \in [Dir -> Files] /\ build \subseteq Build
         /\ dist \in [Name -> Package] /\ pack \subseteq Packager
BY DEF TypeOK, Files, Build, Package, Packager

LEMMA DirInvUnchanged ==
  ASSUME DirInv, UNCHANGED <<out, build, complete, torn>>
  PROVE  DirInv'
BY DEF DirInv, OneBuild, ImagesOfDir, Removing, ImagesOfBuild, CompleteStartable, OneBasePerDir,
  ProductionKeysAreOwn

LEMMA BuildCommandDirs ==
  ASSUME TypeOK, DirInv, NEW d \in Dir, NEW mode \in BuildMode, NEW base \in Base,
         NEW given \in GivenKey, BuildCommand(d, mode, base, given)
  PROVE  DirInv'
<1>1. PICK key \in IF given = {} THEN Key ELSE given :
        build' = {[dir |-> d, base |-> base, key |-> key, made |-> {},
                   removing |-> StartsFresh(d, mode, base)]}
  BY DEF BuildCommand
<1>2. /\ build = {} /\ UNCHANGED <<out, torn>>
      /\ complete' = complete \ {d}
  BY DEF BuildCommand
<1>3. ~StartsFresh(d, mode, base) => out[d].cache \in {{}, {base}}
  BY DEF StartsFresh, OtherBase
<1>4. d.boot = "mcuboot" /\ d.profile = "production" => key # SampleKey
  BY <1>1 DEF BuildCommand, KeyAllowed, IsSampleKey
<1>5. ImagesOfDir'
  BY <1>2 DEF DirInv, ImagesOfDir, Removing
<1>6. ImagesOfBuild'
  BY <1>1, <1>2, <1>3, <1>4 DEF ImagesOfBuild
<1>7. CompleteStartable' /\ OneBasePerDir' /\ ProductionKeysAreOwn'
  BY <1>2 DEF DirInv, CompleteStartable, OneBasePerDir, ProductionKeysAreOwn
<1> QED BY <1>1, <1>5, <1>6, <1>7 DEF DirInv, OneBuild

(* What a removal leaves is part of what was there.                         *)
LEMMA RemoveFileDirs == ASSUME TypeOK, DirInv, RemoveFile PROVE DirInv'
<1>1. PICK b \in build : /\ b.removing
                         /\ RemovedFile(b)
                         /\ UNCHANGED <<build, complete, torn>>
  BY DEF RemoveFile, RemovedFile
<1>2. /\ \A e \in Dir \ {b.dir} : out'[e] = out[e]
      /\ \A e \in Dir :
           /\ out'[e].cache \in {{}, out[e].cache}
           /\ out'[e].app \in {{}, out[e].app}
           /\ out'[e].signed \in {{}, out[e].signed}
           /\ out'[e].bootloader \in {{}, out[e].bootloader}
  BY <1>1, FilesType, RemovedFileType
<1>3. b.dir \in Dir /\ b.dir \notin complete /\ b.made = {} /\ complete \subseteq Dir
  BY <1>1, FilesType DEF Build, DirInv, ImagesOfBuild, TypeOK
<1>4. OneBuild' /\ \A c \in build : c = b
  BY <1>1 DEF DirInv, OneBuild
<1>5. ImagesOfDir'
  <2> SUFFICES ASSUME NEW e \in Dir
               PROVE  /\ out'[e].cache = {} /\ e \notin torn' /\ ~Removing(e)' =>
                           out'[e].app = {} /\ out'[e].signed = {} /\ out'[e].bootloader = {}
                      /\ \A app \in out'[e].app : app.dir = e
    BY DEF ImagesOfDir
  <2>1. \A app \in out'[e].app : app.dir = e
    BY <1>2 DEF DirInv, ImagesOfDir
  <2>2. CASE e = b.dir
    BY <1>1, <2>1, <2>2 DEF Removing
  <2>3. CASE e # b.dir
    BY <1>1, <1>2, <2>1, <2>3 DEF DirInv, ImagesOfDir, Removing
  <2> QED BY <2>2, <2>3
<1>6. ImagesOfBuild'
  BY <1>1, <1>3, <1>4 DEF DirInv, ImagesOfBuild
<1>7. CompleteStartable'
  BY <1>1, <1>2, <1>3 DEF DirInv, CompleteStartable
<1>8. OneBasePerDir'
  <2> SUFFICES ASSUME NEW e \in Dir \ torn', NEW base \in Base, out'[e].cache = {base}
               PROVE  /\ \A app \in out'[e].app : app.base = base
                      /\ \A signed \in out'[e].signed : signed.app.base = base
                      /\ \A bootloader \in out'[e].bootloader : bootloader.base = base
    BY DEF OneBasePerDir
  <2>1. out[e].cache = {base} /\ e \in Dir \ torn
    BY <1>1, <1>2
  <2> QED BY <1>2, <2>1 DEF DirInv, OneBasePerDir
<1>9. ProductionKeysAreOwn'
  BY <1>2 DEF DirInv, ProductionKeysAreOwn
<1> QED BY <1>4, <1>5, <1>6, <1>7, <1>8, <1>9 DEF DirInv

LEMMA RemovalEndsDirs == ASSUME TypeOK, DirInv, RemovalEnds PROVE DirInv'
<1>1. PICK b \in build : /\ b.removing
                         /\ out[b.dir] = EmptyDir
                         /\ build' = {[b EXCEPT !.removing = FALSE]}
                         /\ torn' = torn \ {b.dir}
                         /\ UNCHANGED <<out, complete>>
  BY DEF RemovalEnds
<1> DEFINE c == [b EXCEPT !.removing = FALSE]
<1>2. /\ c.dir = b.dir /\ c.base = b.base /\ c.key = b.key /\ c.made = {} /\ ~c.removing
      /\ build' = {c}
      /\ b.dir \in Dir
  BY <1>1, FilesType DEF Build, DirInv, ImagesOfBuild
<1>3. \A d \in build : d = b
  BY DEF DirInv, OneBuild
<1> HIDE DEF c
<1>4. ImagesOfDir'
  BY <1>1, <1>2, <1>3 DEF DirInv, ImagesOfDir, Removing, EmptyDir
<1>5. ImagesOfBuild'
  BY <1>1, <1>2 DEF DirInv, ImagesOfBuild, EmptyDir
<1>6. OneBasePerDir'
  BY <1>1 DEF DirInv, OneBasePerDir, EmptyDir
<1>7. CompleteStartable' /\ ProductionKeysAreOwn' /\ OneBuild'
  BY <1>1, <1>2 DEF DirInv, CompleteStartable, ProductionKeysAreOwn, OneBuild
<1> QED BY <1>4, <1>5, <1>6, <1>7 DEF DirInv

LEMMA ConfigureDirs == ASSUME TypeOK, DirInv, Configure PROVE DirInv'
<1>1. PICK b \in build : /\ ~b.removing
                         /\ out[b.dir].cache # {b.base}
                         /\ out' = [out EXCEPT ![b.dir].cache = {b.base}]
                         /\ UNCHANGED <<build, complete, torn>>
  BY DEF Configure
<1>2. b.dir \in Dir
  BY FilesType DEF Build
<1>a. \A c \in build : c = b
  BY DEF DirInv, OneBuild
<1>3. /\ b.dir \notin torn =>
           out[b.dir].app = {} /\ out[b.dir].signed = {} /\ out[b.dir].bootloader = {}
      /\ b.dir \notin complete
  BY <1>1, <1>2, <1>a DEF DirInv, ImagesOfBuild, ImagesOfDir, Removing
<1>4. \A e \in Dir \ {b.dir} : out'[e] = out[e]
  BY <1>1, FilesType
<1>5. out'[b.dir] = [out[b.dir] EXCEPT !.cache = {b.base}] /\ out[b.dir] \in Files
  BY <1>1, <1>2, FilesType
<1>6. /\ out'[b.dir].cache = {b.base}
      /\ out'[b.dir].app = out[b.dir].app
      /\ out'[b.dir].signed = out[b.dir].signed
      /\ out'[b.dir].bootloader = out[b.dir].bootloader
  BY <1>5 DEF Files
<1>7. ImagesOfDir'
  BY <1>1, <1>4, <1>6 DEF DirInv, ImagesOfDir, Removing
<1>8. ImagesOfBuild'
  BY <1>1, <1>6, <1>a DEF DirInv, ImagesOfBuild
<1>9. CompleteStartable'
  BY <1>1, <1>3, <1>4 DEF DirInv, CompleteStartable, TypeOK
<1>10. OneBasePerDir'
  BY <1>1, <1>3, <1>4, <1>6 DEF DirInv, OneBasePerDir
<1>11. ProductionKeysAreOwn'
  BY <1>4, <1>6 DEF DirInv, ProductionKeysAreOwn
<1> QED BY <1>1, <1>7, <1>8, <1>9, <1>10, <1>11 DEF DirInv, OneBuild

LEMMA MakeImageDirs ==
  ASSUME TypeOK, DirInv, NEW image \in Image, MakeImage(image)
  PROVE  DirInv'
<1> DEFINE made(b) == [b EXCEPT !.made = @ \cup {image}]
<1>1. PICK b \in build :
        /\ ~b.removing
        /\ out[b.dir].cache = {b.base}
        /\ image \in Needed(b.dir.boot) \ b.made
        /\ out' = [out EXCEPT ![b.dir] = WithImage(@, image, b)]
        /\ build' = {made(b)}
        /\ UNCHANGED <<complete, torn>>
  BY DEF MakeImage
<1>2. b \in Build /\ b.dir \in Dir /\ out[b.dir] \in Files
  BY FilesType DEF Build
<1>3. /\ made(b).dir = b.dir /\ made(b).base = b.base /\ made(b).key = b.key
      /\ made(b).made = b.made \cup {image}
      /\ ~made(b).removing
      /\ BuiltApp(made(b)) = BuiltApp(b)
  BY <1>1, <1>2 DEF Build, BuiltApp
<1> HIDE DEF made
<1>4. b.dir \notin complete
  BY DEF DirInv, ImagesOfBuild
<1>5. \A e \in Dir \ {b.dir} : out'[e] = out[e]
  BY <1>1, FilesType
<1>6. out'[b.dir] = WithImage(out[b.dir], image, b)
  BY <1>1, <1>2, FilesType
<1>7. /\ out'[b.dir].cache = {b.base}
      /\ out'[b.dir].app = IF image = "app" THEN {BuiltApp(b)} ELSE out[b.dir].app
      /\ out'[b.dir].signed = IF image = "signed" THEN {[app |-> BuiltApp(b), key |-> b.key]}
                                                ELSE out[b.dir].signed
      /\ out'[b.dir].bootloader = IF image = "bootloader" THEN {[base |-> b.base, key |-> b.key]}
                                                        ELSE out[b.dir].bootloader
  <2>1. CASE image = "app"
    BY <1>1, <1>2, <1>6, <2>1 DEF WithImage, Files
  <2>2. CASE image = "signed"
    BY <1>1, <1>2, <1>6, <2>2 DEF WithImage, Files
  <2>3. CASE image = "bootloader"
    BY <1>1, <1>2, <1>6, <2>3 DEF WithImage, Files
  <2> QED BY <2>1, <2>2, <2>3 DEF Image
<1>8. BuiltApp(b).dir = b.dir /\ BuiltApp(b).base = b.base
  BY DEF BuiltApp
<1>9. OneBuild'
  BY <1>1 DEF OneBuild
<1>a. \A c \in build : c = b
  BY DEF DirInv, OneBuild
<1>10. ImagesOfDir'
  BY <1>1, <1>3, <1>5, <1>7, <1>8, <1>a DEF DirInv, ImagesOfDir, Removing
<1>11. ImagesOfBuild'
  BY <1>1, <1>3, <1>4, <1>7 DEF DirInv, ImagesOfBuild
<1>12. CompleteStartable'
  BY <1>1, <1>4, <1>5 DEF DirInv, CompleteStartable, TypeOK
<1>13. OneBasePerDir'
  BY <1>1, <1>5, <1>7, <1>8 DEF DirInv, OneBasePerDir
<1>14. ProductionKeysAreOwn'
  <2>1. image \in {"signed", "bootloader"} => b.dir.boot = "mcuboot"
    BY <1>1 DEF Needed
  <2>2. b.dir.boot = "mcuboot" /\ b.dir.profile = "production" => b.key # SampleKey
    BY DEF DirInv, ImagesOfBuild
  <2> QED BY <1>5, <1>7, <2>1, <2>2 DEF DirInv, ProductionKeysAreOwn
<1> QED BY <1>9, <1>10, <1>11, <1>12, <1>13, <1>14 DEF DirInv

LEMMA BuildEndsDirs ==
  ASSUME TypeOK, DirInv, BuildCompletes \/ BuildFails
  PROVE  DirInv'
<1>1. build' = {} /\ UNCHANGED out
  BY DEF BuildCompletes, BuildFails
<1>2. CompleteStartable'
  <2>1. CASE BuildFails
    BY <2>1 DEF BuildFails, DirInv, CompleteStartable
  <2>2. CASE BuildCompletes
    <3>1. PICK b \in build : b.made = Needed(b.dir.boot) /\ complete' = complete \cup {b.dir}
      BY <2>2 DEF BuildCompletes
    <3>2. b.dir.boot \in BootMode
      BY FilesType, DirAssumption DEF Build
    <3>3. Startable(b.dir.boot, out[b.dir].app, out[b.dir].signed, out[b.dir].bootloader)
      <4>1. CASE b.dir.boot = "mcuboot"
        <5>1. "signed" \in b.made /\ "bootloader" \in b.made
          BY <3>1, <4>1 DEF Needed, Image
        <5>2. /\ out[b.dir].signed = {[app |-> BuiltApp(b), key |-> b.key]}
              /\ out[b.dir].bootloader = {[base |-> b.base, key |-> b.key]}
          BY <5>1 DEF DirInv, ImagesOfBuild
        <5> QED BY <4>1, <5>2 DEF Startable
      <4>2. CASE b.dir.boot # "mcuboot"
        BY <3>1, <4>2 DEF DirInv, ImagesOfBuild, Startable, Needed
      <4> QED BY <4>1, <4>2
    <3> QED BY <1>1, <3>1, <3>3 DEF DirInv, CompleteStartable
  <2> QED BY <2>1, <2>2
<1>4. \A b, c \in build : c = b
  BY DEF DirInv, OneBuild
<1>5. CASE BuildCompletes
  <2>a. PICK b \in build : b.made = Needed(b.dir.boot) /\ torn' = torn \ {b.dir}
    BY <1>5 DEF BuildCompletes
  <2>b. b.dir \in Dir
    BY FilesType DEF Build
  <2>1. /\ "app" \in b.made
        /\ b.dir.boot = "mcuboot" => "signed" \in b.made /\ "bootloader" \in b.made
        /\ b.dir.boot # "mcuboot" => b.dir.boot = "no-mcuboot"
    BY <2>a, <2>b, DirAssumption DEF Needed, Image, BootMode
  <2>2. out[b.dir].cache = {b.base} /\ out[b.dir].app = {BuiltApp(b)}
    BY <2>1 DEF DirInv, ImagesOfBuild
  <2>3. /\ b.dir.boot = "mcuboot" =>
             /\ out[b.dir].signed = {[app |-> BuiltApp(b), key |-> b.key]}
             /\ out[b.dir].bootloader = {[base |-> b.base, key |-> b.key]}
        /\ b.dir.boot # "mcuboot" => out[b.dir].signed = {} /\ out[b.dir].bootloader = {}
    BY <2>b, <2>1 DEF DirInv, ImagesOfBuild, TypeOK
  <2>4. BuiltApp(b).base = b.base
    BY DEF BuiltApp
  <2>5. ASSUME NEW base \in Base, out[b.dir].cache = {base}
        PROVE  /\ \A app \in out[b.dir].app : app.base = base
               /\ \A signed \in out[b.dir].signed : signed.app.base = base
               /\ \A bootloader \in out[b.dir].bootloader : bootloader.base = base
    <3>1. base = b.base
      BY <2>2, <2>5
    <3> QED BY <2>2, <2>3, <2>4, <3>1
  <2>6. OneBasePerDir'
    BY <1>1, <2>a, <2>5 DEF DirInv, OneBasePerDir
  <2>7. ImagesOfDir'
    BY <1>1, <1>4, <2>a, <2>2 DEF DirInv, ImagesOfDir, Removing
  <2> QED BY <1>1, <1>2, <2>6, <2>7 DEF DirInv, OneBuild, ImagesOfBuild, ProductionKeysAreOwn
<1>6. CASE BuildFails
  <2>1. PICK b \in build : torn' = IF LeavesTorn(b) THEN torn \cup {b.dir} ELSE torn
    BY <1>6 DEF BuildFails
  <2>a. b.dir \in Dir
    BY FilesType DEF Build
  <2>2. ASSUME out[b.dir].cache = {}, b.dir \notin torn'
        PROVE  out[b.dir].app = {} /\ out[b.dir].signed = {} /\ out[b.dir].bootloader = {}
    <3>1. CASE b.removing
      <4>1. out[b.dir] = EmptyDir
        BY <2>1, <2>2, <3>1 DEF LeavesTorn
      <4> QED BY <4>1 DEF EmptyDir
    <3>2. CASE ~b.removing
      BY <1>4, <2>a, <2>1, <2>2, <3>2 DEF DirInv, ImagesOfDir, Removing, LeavesTorn
    <3> QED BY <3>1, <3>2
  <2>3. ImagesOfDir'
    BY <1>1, <1>4, <2>1, <2>2 DEF DirInv, ImagesOfDir, Removing
  <2>4. OneBasePerDir'
    BY <1>1, <2>1 DEF DirInv, OneBasePerDir
  <2> QED BY <1>1, <1>2, <2>3, <2>4 DEF DirInv, OneBuild, ImagesOfBuild, ProductionKeysAreOwn
<1> QED BY <1>5, <1>6

LEMMA DirStep == ASSUME TypeOK, DirInv, [Next]_vars PROVE DirInv'
<1>1. CASE ~BuildStep
  BY <1>1, OtherStep, DirInvUnchanged
<1>2. CASE BuildStep
  BY <1>2, BuildCommandDirs, RemoveFileDirs, RemovalEndsDirs, ConfigureDirs, MakeImageDirs,
     BuildEndsDirs DEF BuildStep
<1> QED BY <1>1, <1>2

--------------------------------------------------------------------------------
(* Packages                                                                 *)

PackInv == CopiesOfDir /\ PackagesOfBootMode

(* Nothing changes in a completed directory until the next build in it.     *)
LEMMA CompleteDirsKept ==
  ASSUME TypeOK, DirInv,
         \/ RemoveFile \/ RemovalEnds \/ Configure
         \/ (\E image \in Image : MakeImage(image)) \/ BuildCompletes \/ BuildFails
  PROVE  /\ complete \subseteq complete'
         /\ \A d \in complete : out'[d] = out[d]
         /\ UNCHANGED <<dist, pack, board, flash, good>>
<1>1. CASE RemovalEnds \/ BuildCompletes \/ BuildFails
  BY <1>1 DEF RemovalEnds, BuildCompletes, BuildFails
<1>2. CASE RemoveFile \/ Configure \/ \E image \in Image : MakeImage(image)
  <2>1. PICK b \in build : \A d \in Dir \ {b.dir} : out'[d] = out[d]
    <3>1. CASE Configure
      BY <3>1, FilesType DEF Configure
    <3>2. ASSUME NEW image \in Image, MakeImage(image)
          PROVE  \E b \in build : \A d \in Dir \ {b.dir} : out'[d] = out[d]
      BY <3>2, FilesType DEF MakeImage
    <3>3. CASE RemoveFile
      <4>1. PICK b \in build : RemovedFile(b)
        BY <3>3 DEF RemoveFile, RemovedFile
      <4> QED BY <4>1, FilesType, RemovedFileType
    <3> QED BY <1>2, <3>1, <3>2, <3>3
  <2>2. b.dir \notin complete
    BY DEF DirInv, ImagesOfBuild
  <2>3. UNCHANGED <<complete, dist, pack, board, flash, good>>
    BY <1>2 DEF RemoveFile, Configure, MakeImage
  <2> QED BY <2>1, <2>2, <2>3 DEF TypeOK
<1> QED BY <1>1, <1>2

LEMMA BuildCommandPack ==
  ASSUME TypeOK, PackInv, NEW d \in Dir, NEW mode \in BuildMode, NEW base \in Base,
         NEW given \in GivenKey, BuildCommand(d, mode, base, given)
  PROVE  PackInv'
<1>1. /\ pack' = {[p EXCEPT !.clean = @ /\ p.dir # d] : p \in pack}
      /\ complete' = complete \ {d}
      /\ UNCHANGED dist
  BY DEF BuildCommand
<1>2. UNCHANGED out
  BY DEF BuildCommand
<1>3. ASSUME NEW q \in pack'
      PROVE  CopyOfDir(q, dist[q.name], out'[q.dir], complete')
  <2>1. PICK p \in pack : q = [p EXCEPT !.clean = @ /\ p.dir # d]
    BY <1>1
  <2>2. p \in Packager
    BY FilesType
  <2>3. /\ q.dir = p.dir /\ q.name = p.name /\ q.step = p.step
        /\ q.clean = TRUE => p.clean = TRUE /\ p.dir # d
    BY <2>1, <2>2 DEF Packager
  <2>4. p.dir \in Dir
    BY <2>2 DEF Packager
  <2> QED BY <1>1, <1>2, <2>3, <2>4 DEF PackInv, CopiesOfDir, CopyOfDir
<1>4. CopiesOfDir'
  BY <1>1, <1>3 DEF CopiesOfDir
<1> QED BY <1>1, <1>4 DEF PackInv, PackagesOfBootMode

(* One package changes while the packager runs, to one that is not clean.   *)
LEMMA PackageChanges ==
  ASSUME TypeOK, PackagesOfBootMode, NEW name \in Name, NEW package \in Package,
         dist' = [dist EXCEPT ![name] = package],
         \A app \in package.app : app.dir.boot = name.boot,
         package.clean =>
           Startable(name.boot, package.app, package.signed, package.bootloader)
  PROVE  PackagesOfBootMode'
<1>1. /\ \A n \in Name \ {name} : dist'[n] = dist[n]
      /\ dist'[name] = package
  BY FilesType
<1> QED BY <1>1 DEF PackagesOfBootMode

(* One step of the packager.                                                *)
LEMMA PackagerAdvances ==
  ASSUME TypeOK, NEW q, NEW package, q.name \in Name,
         pack' = {q}, dist' = [dist EXCEPT ![q.name] = package],
         CopyOfDir(q, package, out[q.dir], complete),
         UNCHANGED <<out, complete>>
  PROVE  CopiesOfDir'
<1>1. dist'[q.name] = package
  BY FilesType
<1> QED BY <1>1 DEF CopiesOfDir

LEMMA PackStep == ASSUME TypeOK, DirInv, PackInv, [Next]_vars PROVE PackInv'
<1>1. ASSUME NEW d \in Dir, NEW mode \in BuildMode, NEW base \in Base,
             NEW given \in GivenKey, BuildCommand(d, mode, base, given)
      PROVE  PackInv'
  BY <1>1, BuildCommandPack
<1>2. CASE \/ RemoveFile \/ RemovalEnds \/ Configure
           \/ (\E image \in Image : MakeImage(image)) \/ BuildCompletes \/ BuildFails
  BY <1>2, CompleteDirsKept DEF PackInv, CopiesOfDir, CopyOfDir, PackagesOfBootMode
<1>3. ASSUME NEW d \in Dir, NEW profile \in Profile, NEW boot \in BootMode,
             PackageCommand(d, profile, boot)
      PROVE  PackInv'
  <2> DEFINE name == [profile |-> profile, boot |-> boot]
  <2>1. name \in Name /\ name.boot = boot
    BY DEF Name
  <2>2. /\ dist' = [dist EXCEPT ![name] = EmptyPackage]
        /\ pack' = {[step |-> "app", dir |-> d, name |-> name, clean |-> d \in complete]}
        /\ ImagesPresent(d, boot)
        /\ UNCHANGED <<out, complete>>
    BY <1>3 DEF PackageCommand
  <2> HIDE DEF name
  <2>3. EmptyPackage \in Package /\ EmptyPackage.app = {} /\ EmptyPackage.clean = FALSE
    BY DEF EmptyPackage, Package
  <2>4. d.boot = boot
    <3>1. d.boot \in BootMode
      BY DirAssumption
    <3>2. out[d].signed # {} => d.boot # "no-mcuboot"
      BY DEF TypeOK
    <3> QED BY <2>2, <3>1, <3>2 DEF ImagesPresent, BootMode
  <2> DEFINE q == [step |-> "app", dir |-> d, name |-> name, clean |-> d \in complete]
  <2>5. /\ q.step = "app" /\ q.dir = d /\ q.name = name
        /\ q.clean = TRUE => d \in complete
        /\ pack' = {q}
    BY <2>2
  <2> HIDE DEF q
  <2>6. CopiesOfDir'
    <3>1. CopyOfDir(q, EmptyPackage, out[q.dir], complete)
      BY <2>1, <2>3, <2>4, <2>5 DEF CopyOfDir
    <3> QED BY <2>1, <2>2, <2>5, <3>1, PackagerAdvances
  <2>7. PackagesOfBootMode'
    BY <2>1, <2>2, <2>3, PackageChanges DEF PackInv
  <2> QED BY <2>6, <2>7 DEF PackInv
<1>4. CASE CopyApp
  <2>1. PICK p \in pack :
          /\ p.step = "app"
          /\ dist' = [dist EXCEPT ![p.name].app = out[p.dir].app]
          /\ pack' = {[p EXCEPT !.step = "signed"]}
          /\ UNCHANGED <<out, complete>>
    BY <1>4 DEF CopyApp
  <2> DEFINE package == [dist[p.name] EXCEPT !.app = out[p.dir].app]
  <2>2. /\ p \in Packager /\ p.name \in Name /\ p.dir \in Dir
        /\ dist[p.name] \in Package /\ out[p.dir] \in Files
    BY FilesType DEF Packager
  <2>3. CopyOfDir(p, dist[p.name], out[p.dir], complete)
    BY DEF PackInv, CopiesOfDir
  <2>4. dist' = [dist EXCEPT ![p.name] = package] /\ dist'[p.name] = package
    BY <2>1, <2>2, FilesType
  <2>5. /\ package \in Package /\ package.app = out[p.dir].app
        /\ package.clean = FALSE
        /\ package.signed = dist[p.name].signed
        /\ package.bootloader = dist[p.name].bootloader
    BY <2>2, <2>3 DEF Package, Files, CopyOfDir
  <2> DEFINE q == [p EXCEPT !.step = "signed"]
  <2>6. /\ q.step = "signed" /\ q.dir = p.dir /\ q.name = p.name /\ q.clean = p.clean
        /\ pack' = {q}
    BY <2>1, <2>2 DEF Packager
  <2> HIDE DEF package, q
  <2>7. \A app \in package.app : app.dir.boot = p.name.boot
    BY <2>2, <2>3, <2>5 DEF DirInv, ImagesOfDir, CopyOfDir
  <2>8. CopiesOfDir'
    <3>1. CopyOfDir(q, package, out[q.dir], complete)
      BY <2>1, <2>3, <2>5, <2>6 DEF CopyOfDir
    <3> QED BY <2>1, <2>2, <2>4, <2>6, <3>1, PackagerAdvances
  <2>9. PackagesOfBootMode'
    BY <2>2, <2>3, <2>4, <2>5, <2>7, PackageChanges DEF PackInv
  <2> QED BY <2>8, <2>9 DEF PackInv
<1>5. CASE CopySigned
  <2>1. PICK p \in pack :
          /\ p.step = "signed"
          /\ dist' = [dist EXCEPT ![p.name].signed = out[p.dir].signed]
          /\ pack' = {[p EXCEPT !.step = "bootloader"]}
          /\ UNCHANGED <<out, complete>>
    BY <1>5 DEF CopySigned
  <2> DEFINE package == [dist[p.name] EXCEPT !.signed = out[p.dir].signed]
  <2>2. /\ p \in Packager /\ p.name \in Name /\ p.dir \in Dir
        /\ dist[p.name] \in Package /\ out[p.dir] \in Files
    BY FilesType DEF Packager
  <2>3. CopyOfDir(p, dist[p.name], out[p.dir], complete)
    BY DEF PackInv, CopiesOfDir
  <2>4. dist' = [dist EXCEPT ![p.name] = package] /\ dist'[p.name] = package
    BY <2>1, <2>2, FilesType
  <2>5. /\ package \in Package /\ package.signed = out[p.dir].signed
        /\ package.clean = FALSE
        /\ package.app = dist[p.name].app
        /\ package.bootloader = dist[p.name].bootloader
    BY <2>2, <2>3 DEF Package, Files, CopyOfDir
  <2> DEFINE q == [p EXCEPT !.step = "bootloader"]
  <2>6. /\ q.step = "bootloader" /\ q.dir = p.dir /\ q.name = p.name /\ q.clean = p.clean
        /\ pack' = {q}
    BY <2>1, <2>2 DEF Packager
  <2> HIDE DEF package, q
  <2>7. \A app \in package.app : app.dir.boot = p.name.boot
    BY <2>2, <2>5 DEF PackInv, PackagesOfBootMode
  <2>8. CopiesOfDir'
    <3>1. CopyOfDir(q, package, out[q.dir], complete)
      BY <2>1, <2>3, <2>5, <2>6 DEF CopyOfDir
    <3> QED BY <2>1, <2>2, <2>4, <2>6, <3>1, PackagerAdvances
  <2>9. PackagesOfBootMode'
    BY <2>2, <2>3, <2>4, <2>5, <2>7, PackageChanges DEF PackInv
  <2> QED BY <2>8, <2>9 DEF PackInv
<1>6. CASE CopyBootloader
  <2>1. PICK p \in pack :
          /\ p.step = "bootloader"
          /\ dist' = [dist EXCEPT ![p.name].bootloader = out[p.dir].bootloader]
          /\ pack' = {[p EXCEPT !.step = "manifest"]}
          /\ UNCHANGED <<out, complete>>
    BY <1>6 DEF CopyBootloader
  <2> DEFINE package == [dist[p.name] EXCEPT !.bootloader = out[p.dir].bootloader]
  <2>2. /\ p \in Packager /\ p.name \in Name /\ p.dir \in Dir
        /\ dist[p.name] \in Package /\ out[p.dir] \in Files
    BY FilesType DEF Packager
  <2>3. CopyOfDir(p, dist[p.name], out[p.dir], complete)
    BY DEF PackInv, CopiesOfDir
  <2>4. dist' = [dist EXCEPT ![p.name] = package] /\ dist'[p.name] = package
    BY <2>1, <2>2, FilesType
  <2>5. /\ package \in Package /\ package.bootloader = out[p.dir].bootloader
        /\ package.clean = FALSE
        /\ package.app = dist[p.name].app
        /\ package.signed = dist[p.name].signed
    BY <2>2, <2>3 DEF Package, Files, CopyOfDir
  <2> DEFINE q == [p EXCEPT !.step = "manifest"]
  <2>6. /\ q.step = "manifest" /\ q.dir = p.dir /\ q.name = p.name /\ q.clean = p.clean
        /\ pack' = {q}
    BY <2>1, <2>2 DEF Packager
  <2> HIDE DEF package, q
  <2>7. \A app \in package.app : app.dir.boot = p.name.boot
    BY <2>2, <2>5 DEF PackInv, PackagesOfBootMode
  <2>8. CopiesOfDir'
    <3>1. CopyOfDir(q, package, out[q.dir], complete)
      BY <2>1, <2>3, <2>5, <2>6 DEF CopyOfDir
    <3> QED BY <2>1, <2>2, <2>4, <2>6, <3>1, PackagerAdvances
  <2>9. PackagesOfBootMode'
    BY <2>2, <2>3, <2>4, <2>5, <2>7, PackageChanges DEF PackInv
  <2> QED BY <2>8, <2>9 DEF PackInv
<1>7. CASE WriteManifest
  <2>1. PICK p \in pack :
          /\ p.step = "manifest"
          /\ dist' = [dist EXCEPT ![p.name].manifest = TRUE, ![p.name].clean = p.clean]
          /\ pack' = {}
    BY <1>7 DEF WriteManifest
  <2> DEFINE package == [dist[p.name] EXCEPT !.manifest = TRUE, !.clean = p.clean]
  <2>2. /\ p \in Packager /\ p.name \in Name /\ p.dir \in Dir
        /\ dist[p.name] \in Package /\ out[p.dir] \in Files
    BY FilesType DEF Packager
  <2>3. dist' = [dist EXCEPT ![p.name] = package]
    BY <2>1, <2>2, FilesType
  <2>4. /\ package \in Package /\ package.clean = p.clean
        /\ package.app = dist[p.name].app
        /\ package.signed = dist[p.name].signed
        /\ package.bootloader = dist[p.name].bootloader
    BY <2>2 DEF Package, Packager
  <2>5. \A app \in package.app : app.dir.boot = p.name.boot
    BY <2>2, <2>4 DEF PackInv, PackagesOfBootMode
  <2>6. package.clean =>
          Startable(p.name.boot, package.app, package.signed, package.bootloader)
    <3> HIDE DEF package
    <3> SUFFICES ASSUME p.clean
                 PROVE  Startable(p.name.boot, package.app, package.signed, package.bootloader)
      BY <2>4
    <3>1. /\ p.dir.boot = p.name.boot /\ p.dir \in complete
          /\ package.app = out[p.dir].app
          /\ package.signed = out[p.dir].signed
          /\ package.bootloader = out[p.dir].bootloader
      BY <2>1, <2>4 DEF PackInv, CopiesOfDir, CopyOfDir
    <3> QED BY <3>1 DEF DirInv, CompleteStartable
  <2> HIDE DEF package
  <2>7. PackagesOfBootMode'
    BY <2>2, <2>3, <2>4, <2>5, <2>6, PackageChanges DEF PackInv
  <2> QED BY <2>1, <2>7 DEF PackInv, CopiesOfDir
<1>8. CASE PackageInterrupted
  BY <1>8 DEF PackageInterrupted, PackInv, CopiesOfDir, PackagesOfBootMode
<1>9. CASE UNCHANGED <<out, complete, dist, pack>>
  BY <1>9 DEF PackInv, CopiesOfDir, PackagesOfBootMode
<1> QED BY <1>1, <1>2, <1>3, <1>4, <1>5, <1>6, <1>7, <1>8, <1>9 DEF Next, vars, FlashCommand,
           Erase, WriteApplication, WriteBootloader, WriteSlot0, FlashFails

--------------------------------------------------------------------------------
(* The board                                                                *)

BoardInv == OneFlash /\ BootloaderFits /\ FlashedBoardBoots

LEMMA BoardUnchanged ==
  ASSUME BoardInv, UNCHANGED <<board, flash, good>>
  PROVE  BoardInv'
BY DEF BoardInv, OneFlash, BootloaderFits, FlashedBoardBoots, Boots

LEMMA BoardStep == ASSUME TypeOK, PackInv, BoardInv, [Next]_vars PROVE BoardInv'
<1>1. ASSUME NEW name \in Name, FlashCommand(name) PROVE BoardInv'
  BY <1>1 DEF FlashCommand, BoardInv, OneFlash, BootloaderFits, FlashedBoardBoots, Boots
<1>2. CASE Erase
  BY <1>2 DEF Erase, BoardInv, OneFlash, BootloaderFits, FlashedBoardBoots
<1>3. CASE WriteApplication
  <2>1. PICK f \in flash :
          /\ f.name.boot = "no-mcuboot"
          /\ board' = [direct |-> dist[f.name].app, bootloader |-> {}, slot0 |-> {}]
          /\ flash' = {}
          /\ good' = dist[f.name].clean
    BY <1>3 DEF WriteApplication
  <2>2. f.name \in Name
    BY DEF TypeOK
  <2>3. dist[f.name].clean => \E app \in dist[f.name].app : app.dir.boot = "no-mcuboot"
    BY <2>1, <2>2 DEF PackInv, PackagesOfBootMode, Startable
  <2> QED BY <2>1, <2>3 DEF BoardInv, OneFlash, BootloaderFits, FlashedBoardBoots, Boots
<1>4. CASE WriteBootloader
  <2>1. PICK f \in flash :
          /\ f.name.boot = "mcuboot"
          /\ board' = [board EXCEPT !.direct = {}, !.bootloader = dist[f.name].bootloader]
          /\ flash' = {[f EXCEPT !.step = "slot0", !.signed = dist[f.name].signed,
                                 !.clean = dist[f.name].clean]}
          /\ good' = FALSE
    BY <1>4 DEF WriteBootloader
  <2>2. f.name \in Name
    BY DEF TypeOK
  <2> DEFINE g == [f EXCEPT !.step = "slot0", !.signed = dist[f.name].signed,
                            !.clean = dist[f.name].clean]
  <2>3. g.signed = dist[f.name].signed /\ g.clean = dist[f.name].clean
    BY DEF TypeOK
  <2>4. board'.bootloader = dist[f.name].bootloader
    BY <2>1 DEF TypeOK
  <2>5. g.clean => Startable("mcuboot", {}, g.signed, board'.bootloader)
    BY <2>1, <2>2, <2>3, <2>4 DEF PackInv, PackagesOfBootMode, Startable
  <2>6. flash' = {g}
    BY <2>1
  <2> HIDE DEF g
  <2> QED BY <2>1, <2>5, <2>6 DEF BoardInv, OneFlash, BootloaderFits, FlashedBoardBoots
<1>5. CASE WriteSlot0
  <2>1. PICK f \in flash : /\ f.step = "slot0"
                           /\ board' = [board EXCEPT !.slot0 = f.signed]
                           /\ flash' = {}
                           /\ good' = f.clean
    BY <1>5 DEF WriteSlot0
  <2>2. f.clean => Startable("mcuboot", {}, f.signed, board.bootloader)
    BY <2>1 DEF BoardInv, BootloaderFits
  <2>3. board'.bootloader = board.bootloader /\ board'.slot0 = f.signed
    BY <2>1 DEF TypeOK
  <2> QED BY <2>1, <2>2, <2>3 DEF BoardInv, OneFlash, BootloaderFits, FlashedBoardBoots,
             Boots, Startable
<1>6. CASE FlashFails
  BY <1>6 DEF FlashFails, BoardInv, OneFlash, BootloaderFits, FlashedBoardBoots
<1>7. CASE UNCHANGED <<board, flash, good>>
  BY <1>7, BoardUnchanged
<1> QED BY <1>1, <1>2, <1>3, <1>4, <1>5, <1>6, <1>7 DEF Next, vars, BuildCommand, RemoveFile,
           RemovalEnds, Configure, MakeImage, BuildCompletes, BuildFails, PackageCommand, CopyApp, CopySigned,
           CopyBootloader, WriteManifest, PackageInterrupted

--------------------------------------------------------------------------------
(* Theorems                                                                 *)

LEMMA InitInv == Init => IInv
<1> SUFFICES ASSUME Init PROVE IInv
  OBVIOUS
<1>1. \A d \in Dir : out[d] = EmptyDir
  BY DEF Init
<1>2. \A name \in Name : dist[name] = EmptyPackage
  BY DEF Init
<1>3. ImagesOfDir /\ OneBasePerDir /\ ProductionKeysAreOwn
  BY <1>1 DEF ImagesOfDir, OneBasePerDir, ProductionKeysAreOwn, EmptyDir
<1>4. PackagesOfBootMode
  BY <1>2 DEF PackagesOfBootMode, EmptyPackage
<1> QED BY <1>3, <1>4, TypeInit DEF Init, IInv, OneBuild, ImagesOfBuild, CompleteStartable,
           CopiesOfDir, OneFlash, BootloaderFits, FlashedBoardBoots

LEMMA InvariantStep == ASSUME IInv, [Next]_vars PROVE IInv'
<1>1. TypeOK /\ DirInv /\ PackInv /\ BoardInv
  BY DEF IInv, DirInv, PackInv, BoardInv
<1>2. TypeOK' /\ DirInv' /\ PackInv' /\ BoardInv'
  BY <1>1, TypeStep, DirStep, PackStep, BoardStep
<1> QED BY <1>2 DEF IInv, DirInv, PackInv, BoardInv

LEMMA Invariance == Spec => []IInv
<1>1. Init => IInv
  BY InitInv
<1>2. IInv /\ [Next]_vars => IInv'
  BY InvariantStep
<1> QED BY <1>1, <1>2, PTL DEF Spec

(* The state of the tree, of packages and of the board is well-formed.      *)
THEOREM TypeCorrect == Spec => []TypeOK
<1>1. IInv => TypeOK
  BY DEF IInv
<1> QED BY <1>1, Invariance, PTL

(* However often builds fail in it, no build directory mixes images of two  *)
(* Zephyr checkouts: build.sh removes one that is of another.  Excepted is   *)
(* one whose removal was interrupted after its cache was gone, until a       *)
(* removal or a build runs to its end in it.                                 *)
THEOREM DirectoriesOfOneBase == Spec => []OneBasePerDir
<1>1. IInv => OneBasePerDir
  BY DEF IInv
<1> QED BY <1>1, Invariance, PTL

(* No image in a production build directory has the sample key.             *)
THEOREM NoSampleKeyInProduction == Spec => []ProductionKeysAreOwn
<1>1. IInv => ProductionKeysAreOwn
  BY DEF IInv
<1> QED BY <1>1, Invariance, PTL

(* The manifest tells the truth about the boot mode, whatever --boot says   *)
(* and whichever builds run while images are copied.                        *)
THEOREM ManifestNamesBootMode == Spec => []BootModeIsTrue
<1>1. IInv => BootModeIsTrue
  BY DEF IInv, PackagesOfBootMode, BootModeIsTrue
<1> QED BY <1>1, Invariance, PTL

(* A package of one complete build, flashed to the end, starts.             *)
THEOREM FlashedBoardStarts == Spec => []FlashedBoardBoots
<1>1. IInv => FlashedBoardBoots
  BY DEF IInv
<1> QED BY <1>1, Invariance, PTL
================================================================================
