--------------------------- MODULE CapabilityTables ---------------------------
(***************************************************************************)
(* The generated capabilities (src/capabilities/): for each id, which      *)
(* attributes its class parses into a field of which kind, and which       *)
(* commands it sends.  An attribute has a field of its own in the code, so *)
(* its name stands for the field.  The arguments of commands are left out. *)
(***************************************************************************)
EXTENDS TLC

\* A capability without typed attributes and commands.
Nothing == [str |-> {}]

\* standard.cpp: AudioMute to ContactSensor.
Standard1 ==
  "audioMute" :> [str |-> {"mute"}, sends |-> {"setMute", "mute", "unmute"}] @@
  "audioNotification" :> [
     sends |-> {"playTrackAndResume", "playTrackAndRestore", "playTrack"}] @@
  "audioTrackData" :> [
     json |-> {"audioTrackData"}, int |-> {"totalTime", "elapsedTime"}] @@
  "audioVolume" :> [
     int |-> {"volume"}, sends |-> {"volumeDown", "volumeUp", "setVolume"}] @@
  "battery" :> [str |-> {"type"}, int |-> {"quantity", "battery"}] @@
  "bridge" :> Nothing @@
  "colorControl" :> [
     str |-> {"color"}, num |-> {"saturation", "hue"},
       sends |-> {"setColor", "setHue", "setSaturation"}] @@
  "colorTemperature" :> [
     json |-> {"colorTemperatureRange"}, int |-> {"colorTemperature"},
       sends |-> {"setColorTemperature"}] @@
  "contactSensor" :> [str |-> {"contact"}]

\* standard.cpp: DemandResponseLoadControl to MediaPresets.
Standard2 ==
  "demandResponseLoadControl" :> [
     json |-> {"drlcStatus"}, sends |-> {"overrideDrlcAction",
       "requestDrlcAction"}] @@
  "dishwasherOperatingState" :> [
     str |-> {"completionTime", "machineState", "dishwasherJobState"},
       strs |-> {"supportedMachineStates"}, int |-> {"progress"},
       sends |-> {"setMachineState"}] @@
  "execute" :> [json |-> {"data"}, sends |-> {"execute"}] @@
  "healthCheck" :> [
     str |-> {"healthStatus", "DeviceWatch-DeviceStatus"},
       json |-> {"DeviceWatch-Enroll"}, int |-> {"checkInterval"},
       sends |-> {"ping"}] @@
  "illuminanceMeasurement" :> [num |-> {"illuminance"}] @@
  "mediaInputSource" :> [
     str |-> {"inputSource"}, strs |-> {"supportedInputSources"},
       sends |-> {"setInputSource"}] @@
  "mediaPlayback" :> [
     str |-> {"playbackStatus"}, strs |-> {"supportedPlaybackCommands"},
       sends |-> {"play", "stop", "rewind", "fastForward",
       "setPlaybackStatus", "pause"}] @@
  "mediaPresets" :> [json |-> {"presets"}, sends |-> {"playPreset"}]

\* standard.cpp: MediaTrackControl to Refrigeration.
Standard3 ==
  "mediaTrackControl" :> [
     strs |-> {"supportedTrackControlCommands"}, sends |-> {"previousTrack",
       "nextTrack"}] @@
  "motionSensor" :> [str |-> {"motion"}] @@
  "movementSensor" :> [
     str |-> {"movement"}, strs |-> {"supportedMovements"}] @@
  "multipleZonePresence" :> [
     json |-> {"zoneState"}, sends |-> {"deleteZone", "createZone",
       "updateZoneName"}] @@
  "ocf" :> [
     str |-> {"st", "mndt", "mnfv", "mnhw", "di", "mnsl", "dmv", "n",
       "mnmo", "vid", "mnmn", "mnml", "mnpv", "mnos", "pi", "icv"},
       sends |-> {"postOcfCommand"}] @@
  "powerConsumptionReport" :> [json |-> {"powerConsumption"}] @@
  "presenceSensor" :> [str |-> {"presence"}] @@
  "refresh" :> [sends |-> {"refresh"}] @@
  "refrigeration" :> [
     str |-> {"defrost", "rapidCooling", "rapidFreezing"},
       sends |-> {"setDefrost", "setRapidFreezing", "setRapidCooling"}]

\* standard.cpp: RelativeBrightness to WasherOperatingState.
Standard4 ==
  "relativeBrightness" :> [int |-> {"brightnessIntensity"}] @@
  "remoteControlStatus" :> [str |-> {"remoteControlEnabled"}] @@
  "soundDetection" :> [
     str |-> {"soundDetectionState", "soundDetected"},
       strs |-> {"supportedSoundTypes"}, sends |-> {"disableSoundDetection",
       "enableSoundDetection"}] @@
  "switch" :> [str |-> {"switch"}, sends |-> {"off", "on"}] @@
  "switchLevel" :> [
     json |-> {"levelRange"}, int |-> {"level"}, sends |-> {"setLevel"}] @@
  "temperatureMeasurement" :> [
     json |-> {"temperatureRange"}, num |-> {"temperature"}] @@
  "thermostatCoolingSetpoint" :> [
     json |-> {"coolingSetpointRange"}, num |-> {"coolingSetpoint"},
       sends |-> {"setCoolingSetpoint"}] @@
  "tvChannel" :> [
     str |-> {"tvChannel", "tvChannelName"}, sends |-> {"channelDown",
       "setTvChannel", "channelUp", "setTvChannelName"}] @@
  "washerOperatingState" :> [
     str |-> {"completionTime", "machineState", "washerJobState"},
       strs |-> {"supportedMachineStates"}, sends |-> {"setMachineState"}]

\* standard.cpp: WindowShadeLevel to WindowShadeLevel.
Standard5 ==
  "windowShadeLevel" :> [
     int |-> {"shadeLevel"}, sends |-> {"setShadeLevel"}]

\* samsungce.cpp: Accessibility to AutoDispenseDetergent.
SamsungCe1 ==
  "samsungce.accessibility" :> [
     str |-> {"magnification", "highContrast", "voiceGuide",
       "colorInversion", "grayscale", "relumino"},
       strs |-> {"supportedColorInversions", "supportedVoiceGuides",
       "supportedReluminos", "supportedMagnifications", "supportedOptions",
       "supportedHighContrasts", "supportedGrayscales"},
       json |-> {"supportedMagnificationLevels", "supportedFontSizes"},
       int |-> {"magnificationLevel", "fontSize"},
       sends |-> {"setVoiceGuide", "setRelumino", "setMagnification",
       "setHighContrast", "setGrayscale", "setColorInversion",
       "setMagnificationLevel", "setFontSize"}] @@
  "samsungce.audioVolumeLevel" :> [
     json |-> {"volumeLevelRange"}, int |-> {"volumeLevel"},
       sends |-> {"volumeDown", "volumeUp", "setVolumeLevel"}] @@
  "samsungce.autoDispenseDetergent" :> [
     str |-> {"remainingAmount", "amount", "density", "type"},
       strs |-> {"supportedDensity", "supportedAmount", "availableTypes",
       "supportedTypes"}, int |-> {"recommendedAmount"},
       sends |-> {"unsetRecommendedAmount", "setRecommendedAmount",
       "setType", "setAmount", "setDensity"}]

\* samsungce.cpp: AutoDispenseSoftener to DetergentAutoReplenishment.
SamsungCe2 ==
  "samsungce.autoDispenseSoftener" :> [
     str |-> {"remainingAmount", "amount", "density"},
       strs |-> {"supportedDensity", "supportedAmount"},
       sends |-> {"setAmount", "setDensity"}] @@
  "samsungce.autoOpenDoor" :> [
     str |-> {"autoOpenDoor", "pressureLevel"},
       strs |-> {"supportedPressureLevels"}, sends |-> {"off", "on",
       "setPressureLevel"}] @@
  "samsungce.connectionState" :> [str |-> {"connectionState"}] @@
  "samsungce.detergentAutoReplenishment" :> [
     str |-> {"neutralDetergentType", "babyDetergentType",
       "regularDetergentType"}, num |-> {"regularDetergentRemainingAmount",
       "babyDetergentRemainingAmount", "neutralDetergentRemainingAmount",
       "neutralDetergentOrderThreshold", "babyDetergentInitialAmount",
       "neutralDetergentInitialAmount", "regularDetergentDosage",
       "babyDetergentDosage", "regularDetergentOrderThreshold",
       "regularDetergentInitialAmount", "neutralDetergentDosage",
       "babyDetergentOrderThreshold"},
       bool |-> {"neutralDetergentAlarmEnabled",
       "regularDetergentAlarmEnabled", "babyDetergentAlarmEnabled"},
       sends |-> {"enableAlarm", "setOrderThreshold", "disableAlarm",
       "setAutoReplenishment", "setInitialAmount", "setRemainingAmount",
       "setDosage", "setType"}]

\* samsungce.cpp: DetergentOrder to DishwasherOperation.
SamsungCe3 ==
  "samsungce.detergentOrder" :> [
     num |-> {"orderThreshold"}, bool |-> {"alarmEnabled"},
       sends |-> {"enableAlarm", "setOrderThreshold", "disableAlarm"}] @@
  "samsungce.detergentState" :> [
     str |-> {"detergentType"}, num |-> {"remainingAmount", "dosage",
       "initialAmount"}, sends |-> {"setDetergentType", "setInitialAmount",
       "setRemainingAmount", "setDosage"}] @@
  "samsungce.deviceApplicationsAndSettings" :> [
     json |-> {"deviceApplications", "deviceSettings"}] @@
  "samsungce.deviceIdentification" :> [
     str |-> {"micomAssayCode", "modelName", "serialNumber",
       "serialNumberExtra", "releaseCountry", "modelClassificationCode",
       "description", "binaryId"}, int |-> {"releaseYear"}] @@
  "samsungce.dishwasherJobState" :> [
     str |-> {"dishwasherJobState"}, json |-> {"scheduledJobs"}] @@
  "samsungce.dishwasherOperation" :> [
     str |-> {"operatingState", "remainingTimeStr"},
       strs |-> {"supportedOperatingState"}, num |-> {"progressPercentage",
       "operationTime", "remainingTime", "timeLeftToStart"},
       bool |-> {"reservable"}, sends |-> {"resume", "cancel",
       "setOperatingState", "start", "startLater", "pause"}]

\* samsungce.cpp: DishwasherWashingCourse to DishwasherWashingCourseDetails.
SamsungCe4 ==
  "samsungce.dishwasherWashingCourse" :> [
     str |-> {"washingCourse"}, strs |-> {"customCourseCandidates",
       "supportedCourses"}, sends |-> {"setWashingCourse",
       "setCustomCourse", "startWashingCourse",
       "startWashingCourseWithOptions"}] @@
  "samsungce.dishwasherWashingCourseDetails" :> [
     json |-> {"predefinedCourses"}, int |-> {"waterUsageMax",
       "energyUsageMax"}]

\* samsungce.cpp: DishwasherWashingOptions to DriverVersion.
SamsungCe5 ==
  "samsungce.dishwasherWashingOptions" :> [
     strs |-> {"supportedList"}, json |-> {"dryPlus", "stormWash",
       "multiTab", "hotAirDry", "selectedZone", "speedBooster",
       "highTempWash", "sanitizingWash", "heatedDry", "zoneBooster",
       "addRinse", "rinsePlus", "sanitize", "steamSoak"},
       sends |-> {"setSelectedZone", "setSanitize", "setZoneBooster",
       "setDryPlus", "setAddRinse", "setHotAirDry", "setStormWash",
       "setHeatedDry", "setHighTempWash", "setSanitizingWash",
       "setMultiTab", "setSpeedBooster", "setRinsePlus", "setOptions",
       "setSteamSoak"}] @@
  "samsungce.dongleSoftwareInstallation" :> [str |-> {"status"}] @@
  "samsungce.driverState" :> [json |-> {"driverState"}] @@
  "samsungce.driverVersion" :> [num |-> {"versionNumber"}]

\* samsungce.cpp: EnergyPlanner to KidsLock.
SamsungCe6 ==
  "samsungce.energyPlanner" :> [
     str |-> {"plan"}, json |-> {"data"}, sends |-> {"setPlan", "setData"}] @@
  "samsungce.foodDefrost" :> [
     str |-> {"foodType"}, json |-> {"supportedOptions", "weight"},
       int |-> {"operationTime", "remainingTime"}, sends |-> {"setDefrost"}] @@
  "samsungce.freezerConvertMode" :> [
     str |-> {"freezerConvertMode"},
       strs |-> {"supportedFreezerConvertModes"},
       sends |-> {"setFreezerConvertMode"}] @@
  "samsungce.fridgeIcemakerInfo" :> [str |-> {"name"}] @@
  "samsungce.fridgePantryInfo" :> [str |-> {"name"}] @@
  "samsungce.fridgePantryMode" :> [
     str |-> {"mode"}, strs |-> {"supportedModes"}, sends |-> {"setMode"}] @@
  "samsungce.fridgeVacationMode" :> [str |-> {"vacationMode"}] @@
  "samsungce.fridgeWelcomeLighting" :> [
     str |-> {"detectionProximity", "status"},
       strs |-> {"supportedDetectionProximities"},
       sends |-> {"setDetectionProximity", "off", "on"}] @@
  "samsungce.fridgeZoneInfo" :> [str |-> {"name"}] @@
  "samsungce.kidsLock" :> [str |-> {"lockState"}]

\* samsungce.cpp: MeatAging to SelfCheck.
SamsungCe7 ==
  "samsungce.meatAging" :> [
     strs |-> {"supportedMeatTypes", "supportedAgingMethods"},
       json |-> {"zoneInfo", "status"}, sends |-> {"addAging",
       "cancelAging", "updateAging"}] @@
  "samsungce.operationOrigin" :> [sends |-> {"setOperationOrigin"}] @@
  "samsungce.powerCool" :> [
     bool |-> {"activated"}, sends |-> {"activate", "deactivate"}] @@
  "samsungce.powerFreeze" :> [
     bool |-> {"activated"}, sends |-> {"activate", "deactivate"}] @@
  "samsungce.quickControl" :> [str |-> {"version"}] @@
  "samsungce.sabbathMode" :> [
     str |-> {"status"}, strs |-> {"supportedActions"}, sends |-> {"off",
       "on"}] @@
  "samsungce.selfCheck" :> [
     str |-> {"result", "status"}, strs |-> {"supportedActions"},
       json |-> {"errors"}, int |-> {"progress"},
       sends |-> {"cancelSelfCheck", "startSelfCheck"}]

\* samsungce.cpp: SoftenerAutoReplenishment to SoftenerState.
SamsungCe8 ==
  "samsungce.softenerAutoReplenishment" :> [
     str |-> {"regularSoftenerType"},
       num |-> {"regularSoftenerInitialAmount",
       "regularSoftenerRemainingAmount", "regularSoftenerDosage",
       "regularSoftenerOrderThreshold"},
       bool |-> {"regularSoftenerAlarmEnabled"}, sends |-> {"enableAlarm",
       "setOrderThreshold", "disableAlarm", "setAutoReplenishment",
       "setInitialAmount", "setRemainingAmount", "setDosage", "setType"}] @@
  "samsungce.softenerOrder" :> [
     num |-> {"orderThreshold"}, bool |-> {"alarmEnabled"},
       sends |-> {"enableAlarm", "setOrderThreshold", "disableAlarm"}] @@
  "samsungce.softenerState" :> [
     str |-> {"softenerType"}, num |-> {"remainingAmount", "dosage",
       "initialAmount"}, sends |-> {"setInitialAmount",
       "setRemainingAmount", "setDosage", "setSoftenerType"}]

\* samsungce.cpp: SoftwareUpdate to WasherCycle.
SamsungCe9 ==
  "samsungce.softwareUpdate" :> [
     str |-> {"otnDUID", "lastUpdatedDate", "operatingState",
       "protocolVersion"}, strs |-> {"availableModules"},
       json |-> {"targetModule", "schedule", "availableModuleDetails",
       "moduleUpdateCounts"}, int |-> {"progress"},
       bool |-> {"newVersionAvailable"}, sends |-> {"setSchedule",
       "agreeUpdate", "disagreeUpdate", "cancelSchedule"}] @@
  "samsungce.softwareVersion" :> [json |-> {"versions", "platformVersion"}] @@
  "samsungce.temperatureSetting" :> [
     json |-> {"supportedDesiredTemperatures"},
       num |-> {"desiredTemperature"}, sends |-> {"setDesiredTemperature"}] @@
  "samsungce.unavailableCapabilities" :> [strs |-> {"unavailableCommands"}] @@
  "samsungce.viewInside" :> [
     str |-> {"lastUpdatedTime"}, strs |-> {"supportedFocusAreas"},
       json |-> {"contents"}, sends |-> {"refreshSpecificArea",
       "refreshAll", "refresh"}] @@
  "samsungce.washerBubbleSoak" :> [
     str |-> {"status"}, sends |-> {"off", "on"}] @@
  "samsungce.washerCycle" :> [
     str |-> {"cycleType", "washerCycle"}, strs |-> {"availableCycleTypes"},
       json |-> {"supportedCycles", "referenceTable"},
       int |-> {"specializedFunctionClassification"},
       sends |-> {"setWasherCycle", "setCycleType"}]

\* samsungce.cpp: WasherCyclePreset to WaterConsumptionReport.
SamsungCe10 ==
  "samsungce.washerCyclePreset" :> [
     json |-> {"presets"}, num |-> {"maxNumberOfPresets"},
       sends |-> {"setWasherCyclePreset", "delete"}] @@
  "samsungce.washerDelayEnd" :> [
     int |-> {"remainingTime", "minimumReservableTime"},
       sends |-> {"refreshMinimumReservableTime", "setDelayTime"}] @@
  "samsungce.washerFreezePrevent" :> [str |-> {"operatingState"}] @@
  "samsungce.washerOperatingState" :> [
     str |-> {"washerJobState", "operatingState", "remainingTimeStr",
       "washerJobPhase"}, strs |-> {"supportedOperatingStates"},
       json |-> {"scheduledJobs", "scheduledPhases"},
       int |-> {"washingProgress", "dryingProgress", "progress",
       "operationTime", "remainingTime"}, sends |-> {"resume", "cancel",
       "start", "estimateOperationTime", "setDelayEnd", "pause"}] @@
  "samsungce.washerWashingTime" :> [
     str |-> {"washingTime"}, strs |-> {"supportedWashingTimes"},
       sends |-> {"setWashingTime"}] @@
  "samsungce.washerWaterLevel" :> [
     str |-> {"waterLevel"}, strs |-> {"supportedWaterLevel"},
       sends |-> {"setWaterLevel"}] @@
  "samsungce.washerWaterValve" :> [
     str |-> {"waterValve"}, strs |-> {"supportedWaterValve"},
       sends |-> {"setWaterValve"}] @@
  "samsungce.waterConsumptionReport" :> [json |-> {"waterConsumption"}]

\* samsungce.cpp: WeightMeasurement to WelcomeMessage.
SamsungCe11 ==
  "samsungce.weightMeasurement" :> [num |-> {"weight"}] @@
  "samsungce.weightMeasurementCalibration" :> [sends |-> {"zeroCalibrate"}] @@
  "samsungce.welcomeMessage" :> [
     json |-> {"welcomeMessage"}, sends |-> {"deleteWelcomeMessage",
       "setWelcomeMessage"}]

\* samsungvd.cpp: Ambient to SoundDetection.
SamsungVd1 ==
  "samsungvd.ambient" :> [
     json |-> {"info"}, sends |-> {"sendData", "setAmbientOn"}] @@
  "samsungvd.ambientContent" :> [
     json |-> {"supportedAmbientApps"}, sends |-> {"setAmbientContent"}] @@
  "samsungvd.art" :> [sends |-> {"setArtOn"}] @@
  "samsungvd.audioGroupInfo" :> [str |-> {"role", "channel", "status"}] @@
  "samsungvd.audioInputSource" :> [
     str |-> {"inputSource"}, strs |-> {"supportedInputSources"},
       sends |-> {"setNextInputSource"}] @@
  "samsungvd.deviceCategory" :> [str |-> {"category"}] @@
  "samsungvd.firmwareVersion" :> [
     str |-> {"firmwareVersion"}, sends |-> {"setFirmwareVersion"}] @@
  "samsungvd.launchService" :> [sends |-> {"launchTVPlus"}] @@
  "samsungvd.lightControl" :> [
     str |-> {"requestId", "selectedMode", "selectedAppId", "errorCode"},
       json |-> {"supportedModeMap", "supportedModes"},
       bool |-> {"streamControl"}, sends |-> {"setLightControlMode"}] @@
  "samsungvd.mediaInputSource" :> [
     str |-> {"inputSource"}, json |-> {"supportedInputSourcesMap"},
       sends |-> {"setInputSource"}] @@
  "samsungvd.remoteControl" :> [sends |-> {"send"}] @@
  "samsungvd.soundDetection" :> [str |-> {"soundDetected"}]

\* samsungvd.cpp: SoundFrom to ThingStatus.
SamsungVd2 ==
  "samsungvd.soundFrom" :> [
     str |-> {"detailName"}, int |-> {"mode"}, sends |-> {"setSoundFrom"}] @@
  "samsungvd.supportsFeatures" :> [
     strs |-> {"executableServiceList"}, bool |-> {"mediaOutputSupported",
       "imeAdvSupported", "wifiUpdateSupport", "remotelessSupported",
       "artSupported", "mobileCamSupported"}] @@
  "samsungvd.supportsPowerOnByOcf" :> [str |-> {"supportsPowerOnByOcf"}] @@
  "samsungvd.thingStatus" :> [str |-> {"status"}, int |-> {"updatedTime"}]

\* custom.cpp: Accessibility to DustFilter.
Custom1 ==
  "custom.accessibility" :> [sends |-> {"setAccessibility"}] @@
  "custom.deodorFilter" :> [
     str |-> {"deodorFilterLastResetDate", "deodorFilterStatus"},
       strs |-> {"deodorFilterResetType"}, int |-> {"deodorFilterCapacity",
       "deodorFilterUsage", "deodorFilterUsageStep"},
       sends |-> {"resetDeodorFilter"}] @@
  "custom.deviceReportStateConfiguration" :> [
     str |-> {"reportStateRealtimePeriod", "reportStatePeriod"},
       json |-> {"reportStateRealtime"}, sends |-> {"setReportStatePeriod",
       "setReportStateRealtime", "setReportStateRealtimePeriod"}] @@
  "custom.disabledCapabilities" :> [strs |-> {"disabledCapabilities"}] @@
  "custom.disabledComponents" :> [strs |-> {"disabledComponents"}] @@
  "custom.dishwasherDelayStartTime" :> [
     str |-> {"dishwasherDelayStartTime"},
       sends |-> {"setDishwasherDelayStartTime"}] @@
  "custom.dishwasherOperatingPercentage" :> [
     int |-> {"dishwasherOperatingPercentage"}] @@
  "custom.dishwasherOperatingProgress" :> [
     str |-> {"dishwasherOperatingProgress"}] @@
  "custom.dryerDryLevel" :> [
     str |-> {"dryerDryLevel"}, strs |-> {"supportedDryerDryLevel"},
       sends |-> {"setDryerDryLevel"}] @@
  "custom.dustFilter" :> [
     str |-> {"dustFilterLastResetDate", "dustFilterStatus"},
       strs |-> {"dustFilterResetType"}, int |-> {"dustFilterUsageStep",
       "dustFilterUsage", "dustFilterCapacity"},
       sends |-> {"resetDustFilter"}]

\* custom.cpp: EnergyType to ThermostatSetpointControl.
Custom2 ==
  "custom.energyType" :> [
     str |-> {"energyType", "notificationTemplateID"},
       json |-> {"energySavingInfo", "supportedEnergySavingLevels"},
       int |-> {"drMaxDuration", "energySavingLevel"},
       bool |-> {"energySavingSupport", "energySavingOperation",
       "energySavingOperationSupport"}, sends |-> {"setEnergySavingLevel"}] @@
  "custom.error" :> [json |-> {"error"}, sends |-> {"setError"}] @@
  "custom.fridgeMode" :> [
     str |-> {"fridgeModeValue", "fridgeMode"},
       strs |-> {"supportedFridgeOptions", "supportedFullFridgeModes",
       "supportedFridgeModes"}, sends |-> {"setFridgeMode"}] @@
  "custom.jobBeginningStatus" :> [str |-> {"jobBeginningStatus"}] @@
  "custom.launchapp" :> [sends |-> {"launchApp"}] @@
  "custom.picturemode" :> [
     str |-> {"pictureMode"}, json |-> {"supportedPictureModes",
       "supportedPictureModesMap"}, sends |-> {"setPictureMode"}] @@
  "custom.recording" :> [sends |-> {"recordStart", "recordStop"}] @@
  "custom.soundmode" :> [
     str |-> {"soundMode"}, strs |-> {"supportedSoundModes"},
       json |-> {"supportedSoundModesMap"}, sends |-> {"setSoundMode"}] @@
  "custom.supportedOptions" :> [
     str |-> {"course"}, strs |-> {"supportedCourses"},
       json |-> {"referenceTable"}, sends |-> {"setCourse"}] @@
  "custom.thermostatSetpointControl" :> [
     num |-> {"minimumSetpoint", "maximumSetpoint"},
       sends |-> {"raiseSetpoint", "lowerSetpoint"}]

\* custom.cpp: Tvsearch to WaterFilter.
Custom3 ==
  "custom.tvsearch" :> [sends |-> {"search"}] @@
  "custom.washerAutoDetergent" :> [
     str |-> {"washerAutoDetergent"}, sends |-> {"setWasherAutoDetergent"}] @@
  "custom.washerAutoSoftener" :> [
     str |-> {"washerAutoSoftener"}, sends |-> {"setWasherAutoSoftener"}] @@
  "custom.washerRinseCycles" :> [
     str |-> {"washerRinseCycles"}, strs |-> {"supportedWasherRinseCycles"},
       sends |-> {"setWasherRinseCycles"}] @@
  "custom.washerSoilLevel" :> [
     str |-> {"washerSoilLevel"}, strs |-> {"supportedWasherSoilLevel"},
       sends |-> {"setWasherSoilLevel"}] @@
  "custom.washerSpinLevel" :> [
     str |-> {"washerSpinLevel"}, strs |-> {"supportedWasherSpinLevel"},
       sends |-> {"setWasherSpinLevel"}] @@
  "custom.washerWaterTemperature" :> [
     str |-> {"washerWaterTemperature"},
       strs |-> {"supportedWasherWaterTemperature"},
       sends |-> {"setWasherWaterTemperature"}] @@
  "custom.waterFilter" :> [
     str |-> {"waterFilterLastResetDate", "waterFilterStatus"},
       strs |-> {"waterFilterResetType"}, int |-> {"waterFilterUsageStep",
       "waterFilterCapacity", "waterFilterUsage"},
       sends |-> {"resetWaterFilter"}]

\* sec.cpp: DiagnosticsInformation to WifiConfiguration.
Sec ==
  "sec.diagnosticsInformation" :> [
     str |-> {"endpoint", "minVersion", "signinPermission", "setupId",
       "protocolType", "tsId", "mnId", "dumpType"}, strs |-> {"logType"}] @@
  "sec.smartthingsHub" :> [
     str |-> {"threadHardwareAvailability", "availability", "deviceId",
       "zigbeeHardwareAvailability", "version", "eui",
       "lastOnboardingResult", "zwaveHardwareAvailability", "state",
       "lastOnboardingErrorCode"}, int |-> {"onboardingProgress"},
       bool |-> {"threadRequiresExternalHardware",
       "zigbeeRequiresExternalHardware", "zwaveRequiresExternalHardware"},
       sends |-> {"onboarding", "cancelOnboarding"}] @@
  "sec.wifiConfiguration" :> [
     str |-> {"minVersion"}, strs |-> {"supportedWiFiFreq",
       "supportedAuthType", "protocolType"}, bool |-> {"autoReconnection"}]

\* hca.cpp: WasherMode to WasherMode.
Hca ==
  "hca.washerMode" :> [
     str |-> {"mode"}, strs |-> {"supportedModes"}, sends |-> {"setMode"}]

\* samsungim.cpp: FixedFindNode to HueSyncMode.
SamsungIm ==
  "samsungim.fixedFindNode" :> [sends |-> {"refresh"}] @@
  "samsungim.hueSyncMode" :> [str |-> {"mode"}]

\* createStandardCapability() and createProprietaryCapability().
Standard ==
  Standard1 @@ Standard2 @@ Standard3 @@ Standard4 @@ Standard5
Proprietary ==
  SamsungCe1 @@ SamsungCe2 @@ SamsungCe3 @@ SamsungCe4 @@ SamsungCe5 @@
  SamsungCe6 @@ SamsungCe7 @@ SamsungCe8 @@ SamsungCe9 @@ SamsungCe10 @@
  SamsungCe11 @@ SamsungVd1 @@ SamsungVd2 @@ Custom1 @@ Custom2 @@ Custom3 @@
  Sec @@ Hca @@ SamsungIm

\* createCapability(): an id of neither factory is an UnknownCapability.
CreateCapability(id) ==
  IF id \in DOMAIN Standard THEN Standard[id]
  ELSE IF id \in DOMAIN Proprietary THEN Proprietary[id] ELSE Nothing

Kinds == {"str", "strs", "json", "int", "num", "bool"}
AttributesOf(entry, kind) == IF kind \in DOMAIN entry THEN entry[kind] ELSE {}

\* The kind of the field of each attribute of a capability.
KindsOf(id) ==
  LET entry == CreateCapability(id)
  IN [a \in UNION {AttributesOf(entry, k) : k \in Kinds} |->
        CHOOSE k \in Kinds : a \in AttributesOf(entry, k)]

=============================================================================
